---------------------------- MODULE Spec2Model ----------------------------
(***************************************************************************)
(* Model of the content deduplication / merge pipeline of find-animation   *)
(* (backend/src/scripts/populateUnified.js, class DatabasePopulator).      *)
(*                                                                         *)
(* Conventions                                                             *)
(*   - a JavaScript string is a sequence of one-character strings;         *)
(*   - null / undefined of a numeric field is NULL;                        *)
(*   - scores are kept in tenths (7.5 is 75), Math.log10 in hundredths,   *)
(*     and a quotient is kept exact as a fraction [num, den]; the fraction *)
(*     with den = 0 is the JavaScript null result of the score unifier.    *)
(***************************************************************************)
EXTENDS Integers, Sequences, FiniteSets, TLC

VARIABLES
    scArgs,      \* arguments of the current call of the score unifier
    scRes,       \* what that call computed (included sources, result)
    scPrev,      \* arguments and outcome of the call before the last raise
    scRaised,    \* which source's score the last step raised
    fcNew,       \* newContent argument of the fact checker
    fcOld,       \* existingContent argument of the fact checker
    fcRes,       \* outcome of the last call of the fact checker
    fcPrev,      \* the arguments and outcome of the call before it
    fcRemoved,   \* which field was removed from which argument last
    store,       \* the Content collection, in natural (insertion) order
    stats,       \* DatabasePopulator.stats
    last,        \* the last operation: its input, its candidates and its outcome
    merge,       \* a record, the source data merged into it, and the merges done
    batch,       \* one run of populateTmdbContent or populateMalContent
    race,        \* two interleaved ingests and the collection they share
    ttl,         \* a title, its variations, and those of its cleaned variant
    auth,        \* the User collection, the clock and the login requests in flight
    ban,         \* one request passing the IP ban middleware
    watch,       \* one user's watchlist and the last watchlist request
    search       \* the last searchContent request and its response

scoreVars == <<scArgs, scRes, scPrev, scRaised>>

factVars == <<fcNew, fcOld, fcRes, fcPrev, fcRemoved>>

pipeVars == <<store, stats, last>>

mergeVars == <<merge>>

batchVars == <<batch>>

raceVars == <<race>>

apiVars == <<ttl, auth, ban, watch, search>>

vars == <<scArgs, scRes, scPrev, scRaised, fcNew, fcOld, fcRes, fcPrev, fcRemoved,
          store, stats, last, merge, batch, race, ttl, auth, ban, watch, search>>

---------------------------------------------------------------------------
(* JavaScript values *)

NULL == -1

\* JavaScript truthiness of a number-or-null: null, undefined and 0 are falsy.
Truthy(x) == x # NULL /\ x # 0

Max(a, b) == IF a >= b THEN a ELSE b

Abs(a) == IF a >= 0 THEN a ELSE 0 - a

RECURSIVE SumSeq(_)
SumSeq(s) == IF s = <<>> THEN 0 ELSE Head(s) + SumSeq(Tail(s))

\* Fractions: [num, den] with den > 0, or NullScore.
NullScore == [num |-> 0, den |-> 0]

IsNull(q) == q.den = 0

Rat(n, d) == [num |-> n, den |-> d]

RatEq(p, q) ==
    IF IsNull(p) \/ IsNull(q) THEN IsNull(p) /\ IsNull(q)
    ELSE p.num * q.den = q.num * p.den

RatLeq(p, q) == p.num * q.den <= q.num * p.den

RatLt(p, q) == p.num * q.den < q.num * p.den

---------------------------------------------------------------------------
(* Score unifier: calculateUnifiedScoreWithUserRatings *)

\* Math.log10 in hundredths, rounded, on the vote counts the model uses.
Log10(v) ==
    CASE v = 1 -> 0
      [] v = 2 -> 30
      [] v = 3 -> 48
      [] v = 4 -> 60
      [] v = 5 -> 70
      [] v = 6 -> 78
      [] v = 10 -> 100
      [] v = 11 -> 104
      [] v = 20 -> 130
      [] v = 21 -> 132
      [] v = 50 -> 170
      [] v = 100 -> 200
      [] v = 101 -> 200
      [] v = 800 -> 290
      [] v = 5000 -> 370

hasMultipleSources(tmdbScore, malScore, userRatingAverage) ==
    \/ Truthy(tmdbScore) /\ Truthy(malScore)
    \/ Truthy(tmdbScore) /\ Truthy(userRatingAverage)
    \/ Truthy(malScore) /\ Truthy(userRatingAverage)

TmdbIncludedAtTen(tmdbScore, tmdbVotes, multi) ==
    Truthy(tmdbScore) /\ Truthy(tmdbVotes)
        /\ (IF multi THEN tmdbVotes >= 10 ELSE tmdbVotes > 0)

TmdbIncluded(tmdbScore, tmdbVotes, multi) ==
    Truthy(tmdbScore) /\ Truthy(tmdbVotes)
        /\ (IF multi THEN tmdbVotes > 10 ELSE tmdbVotes > 0)

MalIncluded(malScore, malVotes, multi) ==
    Truthy(malScore) /\ Truthy(malVotes)
        /\ (IF multi THEN malVotes > 100 ELSE malVotes > 0)

UserIncluded(userRatingAverage, userRatingCount) ==
    Truthy(userRatingAverage) /\ userRatingCount >= 5

\* Weights are kept times 5, so that the user aggregate's factor 0.8 is 4 / 5.
ProviderWeight(votes) == 5 * Log10(Max(votes, 1))

UserWeightUndiscounted(count) == 5 * Log10(Max(count, 1))

UserWeight(count) == 4 * Log10(Max(count, 1))

QuotientSwapped(weightedSum, totalWeight) == Rat(totalWeight, weightedSum)

\* weightedSum / totalWeight
Quotient(weightedSum, totalWeight) == Rat(weightedSum, totalWeight)

RECURSIVE WeightedSum(_, _)
WeightedSum(scores, weights) ==
    IF scores = <<>> THEN 0
    ELSE Head(scores) * Head(weights) + WeightedSum(Tail(scores), Tail(weights))

\* The whole call: the scores and weights arrays it builds and what it returns.
UnifierRun(tmdbScore, tmdbVotes, malScore, malVotes, userRatingAverage, userRatingCount) ==
    LET multi == hasMultipleSources(tmdbScore, malScore, userRatingAverage)
        incT == TmdbIncluded(tmdbScore, tmdbVotes, multi)
        incM == MalIncluded(malScore, malVotes, multi)
        incU == UserIncluded(userRatingAverage, userRatingCount)
        scores == (IF incT THEN <<tmdbScore>> ELSE <<>>)
                  \o (IF incM THEN <<malScore>> ELSE <<>>)
                  \o (IF incU THEN <<userRatingAverage>> ELSE <<>>)
        weights == (IF incT THEN <<ProviderWeight(tmdbVotes)>> ELSE <<>>)
                   \o (IF incM THEN <<ProviderWeight(malVotes)>> ELSE <<>>)
                   \o (IF incU THEN <<UserWeight(userRatingCount)>> ELSE <<>>)
        totalWeight == SumSeq(weights)
        result == IF Len(scores) = 0 THEN NullScore
                  ELSE IF totalWeight = 0 THEN Rat(SumSeq(scores), Len(scores))
                  ELSE Quotient(WeightedSum(scores, weights), totalWeight)
    IN  [multi |-> multi, tmdb |-> incT, mal |-> incM, user |-> incU,
         scores |-> scores, weights |-> weights, result |-> result]

calculateUnifiedScoreWithUserRatings(ts, tv, ms, mv, ua, uc) ==
    UnifierRun(ts, tv, ms, mv, ua, uc).result

---------------------------------------------------------------------------
(* Strings *)

\* String.prototype.toLowerCase on one character.
LowerChar(c) ==
    CASE c = "A" -> "a" [] c = "B" -> "b" [] c = "C" -> "c" [] c = "D" -> "d"
      [] c = "E" -> "e" [] c = "F" -> "f" [] c = "G" -> "g" [] c = "H" -> "h"
      [] c = "I" -> "i" [] c = "J" -> "j" [] c = "K" -> "k" [] c = "L" -> "l"
      [] c = "M" -> "m" [] c = "N" -> "n" [] c = "O" -> "o" [] c = "P" -> "p"
      [] c = "Q" -> "q" [] c = "R" -> "r" [] c = "S" -> "s" [] c = "T" -> "t"
      [] c = "U" -> "u" [] c = "V" -> "v" [] c = "W" -> "w" [] c = "X" -> "x"
      [] c = "Y" -> "y" [] c = "Z" -> "z" [] OTHER -> c

toLowerCase(str) == [i \in 1..Len(str) |-> LowerChar(str[i])]

\* Array.prototype.includes
Includes(arr, x) == \E i \in 1..Len(arr) : arr[i] = x

\* String.prototype.includes / an unanchored literal RegExp test
Contains(hay, needle) ==
    \E i \in 0..(Len(hay) - Len(needle)) : SubSeq(hay, i + 1, i + Len(needle)) = needle

\* RegExp(literal, 'i').test(str)
ContainsIgnoreCase(hay, needle) == Contains(toLowerCase(hay), toLowerCase(needle))

IsSpace(c) == c = " "

Digits == {"0", "1", "2", "3", "4", "5", "6", "7", "8", "9"}

LowerLetters ==
    {"a", "b", "c", "d", "e", "f", "g", "h", "i", "j", "k", "l", "m",
     "n", "o", "p", "q", "r", "s", "t", "u", "v", "w", "x", "y", "z"}

\* \w of a JavaScript regular expression
IsWordChar(c) == LowerChar(c) \in LowerLetters \/ c \in Digits \/ c = "_"

\* String.prototype.trim
RECURSIVE TrimStart(_)
TrimStart(str) ==
    IF str # <<>> /\ IsSpace(Head(str)) THEN TrimStart(Tail(str)) ELSE str

RECURSIVE TrimEnd(_)
TrimEnd(str) ==
    IF str # <<>> /\ IsSpace(str[Len(str)]) THEN TrimEnd(SubSeq(str, 1, Len(str) - 1))
    ELSE str

Trim(str) == TrimEnd(TrimStart(str))

\* Smallest index i >= from with str[i] = c, or 0.
IndexOfChar(str, c, from) ==
    IF \E i \in from..Len(str) : str[i] = c
    THEN CHOOSE i \in from..Len(str) :
            str[i] = c /\ \A j \in from..(i - 1) : str[j] # c
    ELSE 0

\* Where a leading \s* of a match whose first literal is at index k begins: the
\* start of the run of spaces that ends right before k (not before index low).
RECURSIVE SpaceRunStart(_, _, _)
SpaceRunStart(str, k, low) ==
    IF k > low /\ IsSpace(str[k - 1]) THEN SpaceRunStart(str, k - 1, low) ELSE k

\* Where a trailing \s* that starts at index k ends (the first index after it).
RECURSIVE SpaceRunEnd(_, _)
SpaceRunEnd(str, k) ==
    IF k <= Len(str) /\ IsSpace(str[k]) THEN SpaceRunEnd(str, k + 1) ELSE k

\* .replace(/\s*\(.*?\)\s*/g, '')
RECURSIVE RemoveParentheses(_)
RemoveParentheses(str) ==
    LET open == IndexOfChar(str, "(", 1)
        close == IF open = 0 THEN 0 ELSE IndexOfChar(str, ")", open + 1)
    IN  IF open = 0 \/ close = 0 THEN str
        ELSE SubSeq(str, 1, SpaceRunStart(str, open, 1) - 1)
             \o RemoveParentheses(SubSeq(str, SpaceRunEnd(str, close + 1), Len(str)))

\* .replace(/\s*:.*$/g, '') and .replace(/\s*-\s*.*$/g, '')
CutFromChar(str, c) ==
    LET k == IndexOfChar(str, c, 1)
    IN  IF k = 0 THEN str ELSE SubSeq(str, 1, SpaceRunStart(str, k, 1) - 1)

\* Smallest index k at which word (already lower case) starts in str, ignoring
\* case, and ends just before one of the positions in ends; or 0.
FirstWordAt(str, word, ends) ==
    LET ok(k) == /\ k + Len(word) - 1 <= Len(str)
                 /\ toLowerCase(SubSeq(str, k, k + Len(word) - 1)) = word
                 /\ k + Len(word) \in ends
    IN  IF \E k \in 1..Len(str) : ok(k)
        THEN CHOOSE k \in 1..Len(str) : ok(k) /\ \A j \in 1..(k - 1) : ~ok(j)
        ELSE 0

\* .replace(/\s*season\s*\d+.*$/gi, '')
RemoveSeason(str) ==
    LET digitAfter == {p \in 1..(Len(str) + 1) :
                          LET d == SpaceRunEnd(str, p)
                          IN  d <= Len(str) /\ str[d] \in Digits}
        k == FirstWordAt(str, <<"s", "e", "a", "s", "o", "n">>, digitAfter)
    IN  IF k = 0 THEN str ELSE SubSeq(str, 1, SpaceRunStart(str, k, 1) - 1)

\* .replace(/\s*movie.*$/gi, '')
RemoveMovie(str) ==
    LET any == 1..(Len(str) + 1)
        k == FirstWordAt(str, <<"m", "o", "v", "i", "e">>, any)
    IN  IF k = 0 THEN str ELSE SubSeq(str, 1, SpaceRunStart(str, k, 1) - 1)

\* .replace(/\s*the\s+/gi, '')
RECURSIVE RemoveThe(_)
RemoveThe(str) ==
    LET spaceAfter == {p \in 1..Len(str) : IsSpace(str[p])}
        k == FirstWordAt(str, <<"t", "h", "e">>, spaceAfter)
    IN  IF k = 0 THEN str
        ELSE SubSeq(str, 1, SpaceRunStart(str, k, 1) - 1)
             \o RemoveThe(SubSeq(str, SpaceRunEnd(str, k + 3), Len(str)))

\* .replace(/[^\w\s]/g, '')
RemoveSpecial(str) == SelectSeq(str, LAMBDA c : IsWordChar(c) \/ IsSpace(c))

\* The spread of an array without the Set: every value is kept.
KeepAll(arr) == arr

\* [...new Set(arr)]: the first occurrence of each value, in order.
RECURSIVE Unique(_)
Unique(arr) ==
    IF arr = <<>> THEN <<>>
    ELSE LET front == Unique(SubSeq(arr, 1, Len(arr) - 1))
             value == arr[Len(arr)]
         IN  IF Includes(front, value) THEN front ELSE Append(front, value)

---------------------------------------------------------------------------
(* Title normalizer: generateTitleVariations *)

MinVariationLength == 2

\* The chain of replacements and the trim that produce `cleaned`.
Cleaned(normalized) ==
    Trim(RemoveSpecial(RemoveThe(RemoveMovie(RemoveSeason(
        CutFromChar(CutFromChar(RemoveParentheses(normalized), ":"), "-"))))))

\* Only the cleaned form is returned.
generateCleanedOnly(title) ==
    SelectSeq(<<Cleaned(Trim(toLowerCase(title)))>>, LAMBDA v : Len(v) > 2)

generateTitleVariations(title) ==
    LET normalized == Trim(toLowerCase(title))
        cleaned == Cleaned(normalized)
        originalCleaned ==
            Trim(CutFromChar(CutFromChar(RemoveParentheses(title), ":"), "-"))
        variations ==
            <<title, normalized>>
            \o (IF cleaned # normalized /\ Len(cleaned) > MinVariationLength
                THEN <<cleaned>> ELSE <<>>)
            \o (IF originalCleaned # title /\ Len(originalCleaned) > MinVariationLength
                THEN <<toLowerCase(originalCleaned)>> ELSE <<>>)
    IN  SelectSeq(Unique(variations), LAMBDA v : Len(v) > MinVariationLength)

---------------------------------------------------------------------------
(* Fact checker: isLikelySameContent *)

\* new Date(releaseDate).getFullYear(): the model keeps a release date as its year.
getFullYear(releaseDate) == releaseDate

MaxYearDiffStrict(contentType) == IF contentType = "movie" THEN 1 ELSE 2

MaxYearDiff(contentType) == IF contentType = "movie" THEN 2 ELSE 3

MaxEpisodeDiff == 10

MaxRuntimeDiff == 45

YearMismatchOnMissing(newContent, existingContent) ==
    \/ newContent.releaseDate = NULL
    \/ existingContent.releaseDate = NULL
    \/ Abs(getFullYear(newContent.releaseDate) - getFullYear(existingContent.releaseDate))
           > MaxYearDiff(newContent.contentType)

YearMismatch(newContent, existingContent) ==
    /\ newContent.releaseDate # NULL /\ existingContent.releaseDate # NULL
    /\ Abs(getFullYear(newContent.releaseDate) - getFullYear(existingContent.releaseDate))
           > MaxYearDiff(newContent.contentType)

\* (content.genres || []).map((g) => g.name?.toLowerCase() || g.toLowerCase())
GenreNames(content) ==
    [i \in 1..Len(content.genres) |-> toLowerCase(content.genres[i].name)]

GenreMismatch(newContent, existingContent) ==
    LET newGenres == GenreNames(newContent)
        existingGenres == GenreNames(existingContent)
    IN  /\ Len(newGenres) > 0 /\ Len(existingGenres) > 0
        /\ ~\E i \in 1..Len(newGenres) : Includes(existingGenres, newGenres[i])

\* content.episodeCount || content.malEpisodes
Episodes(content) ==
    IF Truthy(content.episodeCount) THEN content.episodeCount ELSE content.malEpisodes

EpisodeMismatch(newContent, existingContent) ==
    /\ newContent.contentType = "tv"
    /\ Truthy(Episodes(newContent)) /\ Truthy(Episodes(existingContent))
    /\ Abs(Episodes(newContent) - Episodes(existingContent)) > MaxEpisodeDiff

RuntimeMismatch(newContent, existingContent) ==
    /\ newContent.contentType = "movie"
    /\ Truthy(newContent.runtime) /\ Truthy(existingContent.runtime)
    /\ Abs(newContent.runtime - existingContent.runtime) > MaxRuntimeDiff

\* The check without its comparison of the content types.
FactCheckAnyType(newContent, existingContent) ==
    IF YearMismatch(newContent, existingContent) THEN "year"
    ELSE IF GenreMismatch(newContent, existingContent) THEN "genres"
    ELSE IF EpisodeMismatch(newContent, existingContent) THEN "episodes"
    ELSE IF RuntimeMismatch(newContent, existingContent) THEN "runtime"
    ELSE "match"

\* The criterion that rejects the pair (the one the code logs), or "match".
FactCheck(newContent, existingContent) ==
    IF YearMismatch(newContent, existingContent) THEN "year"
    ELSE IF newContent.contentType # existingContent.contentType THEN "type"
    ELSE IF GenreMismatch(newContent, existingContent) THEN "genres"
    ELSE IF EpisodeMismatch(newContent, existingContent) THEN "episodes"
    ELSE IF RuntimeMismatch(newContent, existingContent) THEN "runtime"
    ELSE "match"

isLikelySameContent(newContent, existingContent) ==
    FactCheck(newContent, existingContent) = "match"

---------------------------------------------------------------------------
(* Genres and the records the fact checker is drawn on *)

Genre(id, name) == [id |-> id, name |-> name]

GAction == Genre(1, <<"A", "c", "t">>)
GActionLower == Genre(NULL, <<"a", "c", "t">>)
GDrama == Genre(18, <<"D", "r">>)
GDramaNoId == Genre(NULL, <<"D", "r">>)

GenreLists == {<<>>, <<GAction>>, <<GActionLower, GDramaNoId>>, <<GDrama>>}

Years == {NULL, 2010, 2012, 2013, 2014}

MovieFacts ==
    [contentType : {"movie"}, releaseDate : Years, genres : GenreLists,
     episodeCount : {NULL}, malEpisodes : {NULL}, runtime : {NULL, 0, 90, 135, 136}]

TvFacts ==
    [contentType : {"tv"}, releaseDate : Years, genres : GenreLists,
     episodeCount : {NULL, 12, 22, 23}, malEpisodes : {NULL, 40}, runtime : {NULL}]

FactRecords == MovieFacts \cup TvFacts

---------------------------------------------------------------------------
(* Content records (models/Content.js) and the source data of the providers *)

NoSource == [hasData |-> FALSE, lastUpdated |-> NULL]

\* A document with every optional field absent and the schema defaults set.
EmptyContent ==
    [id |-> NULL, title |-> <<>>, overview |-> <<>>, posterPath |-> "",
     contentType |-> "movie", releaseDate |-> NULL, runtime |-> NULL,
     episodeCount |-> NULL, tmdbId |-> NULL, malId |-> NULL,
     voteAverage |-> NULL, voteCount |-> NULL, popularity |-> NULL,
     unifiedScore |-> NullScore, userRatingAverage |-> NULL, userRatingCount |-> 0,
     malScore |-> NULL, malScoredBy |-> NULL, malRank |-> NULL, malStatus |-> "",
     malEpisodes |-> NULL, malSource |-> "", malRating |-> "",
     genres |-> <<>>, studios |-> <<>>, alternativeTitles |-> <<>>,
     franchise |-> "", dataSources |-> [tmdb |-> NoSource, mal |-> NoSource],
     lastUpdated |-> NULL]

sGhost == <<"G", "h", "o", "s", "t">>
sKoe == <<"K", "o", "e">>
sKoeNo == <<"K", "o", "e", " ", "n", "o">>
sAnime == <<"a", "n", "i", "m", "e">>
sStudio == <<"S", "t">>
sStudioLower == <<"s", "t">>

\* contentData as convertTmdbToContent hands it to saveTmdbContent.
TmdbGhost ==
    [EmptyContent EXCEPT !.title = sGhost, !.overview = <<"o", "v">>,
        !.posterPath = "/ghost.jpg", !.contentType = "movie", !.releaseDate = 2016,
        !.runtime = 130, !.tmdbId = 11, !.voteAverage = 75, !.voteCount = 5000,
        !.popularity = 50, !.genres = <<GDrama>>, !.studios = <<sStudio>>,
        !.alternativeTitles = <<sKoeNo>>, !.franchise = "koe"]

TmdbKoe ==
    [EmptyContent EXCEPT !.title = sKoe, !.contentType = "movie", !.releaseDate = 2010,
        !.tmdbId = 12, !.voteAverage = 80, !.voteCount = 0, !.popularity = 5,
        !.genres = <<GAction, GAction>>]

TmdbSeries ==
    [EmptyContent EXCEPT !.title = sKoeNo, !.contentType = "tv", !.releaseDate = 2016,
        !.episodeCount = 12, !.tmdbId = 13, !.voteAverage = 70, !.voteCount = 10,
        !.popularity = 20, !.genres = <<GAction>>]

TmdbPool == {TmdbGhost, TmdbKoe, TmdbSeries}

\* contentData that came out of the conversion without a title.
TmdbUntitled == [TmdbKoe EXCEPT !.title = <<>>, !.tmdbId = 14]

\* contentData as convertMalToContent hands it to saveMalContent.
MalKoeNo ==
    [EmptyContent EXCEPT !.title = sKoeNo, !.overview = sAnime, !.posterPath = "/koe.jpg",
        !.contentType = "movie", !.releaseDate = 2016, !.runtime = 129, !.malId = 21,
        !.malScore = 89, !.malScoredBy = 800, !.malRank = 7,
        !.malStatus = "finished_airing", !.malSource = "manga", !.malRating = "pg_13",
        !.genres = <<Genre(NULL, <<"d", "r">>)>>, !.studios = <<sStudio, sStudioLower>>,
        !.alternativeTitles = <<sGhost, toLowerCase(sGhost)>>]

MalKoe ==
    [EmptyContent EXCEPT !.title = sKoe, !.overview = <<"l", "o", "n", "g">>,
        !.contentType = "movie", !.releaseDate = 2016,
        !.malId = 22, !.malStatus = "not_yet_aired"]

MalSeries ==
    [EmptyContent EXCEPT !.title = sKoeNo, !.overview = sAnime,
        !.posterPath = "/series.jpg", !.contentType = "tv", !.releaseDate = 2016,
        !.malId = 23, !.malScore = 89, !.malScoredBy = 100, !.malEpisodes = 12,
        !.malStatus = "currently_airing", !.genres = <<GAction>>, !.franchise = "koe"]

\* The MAL entry of MalKoe as the provider delivers it once it has been
\* reclassified from a film to a series.
MalKoeAsSeries ==
    [MalKoe EXCEPT !.contentType = "tv", !.malEpisodes = 12,
                   !.malStatus = "currently_airing"]

MalPool == {MalKoeNo, MalKoe, MalSeries, MalKoeAsSeries}

\* contentData that came out of the conversion without a title.
MalUntitled == [MalKoe EXCEPT !.title = <<>>, !.malId = 24]

\* The fields a MAL contentData object carries (those saveMalContent,
\* mergeMalIntoExisting and isLikelySameContent read from it).
AssignMalData(existingContent, contentData) ==
    [existingContent EXCEPT
        !.title = contentData.title, !.overview = contentData.overview,
        !.posterPath = contentData.posterPath, !.contentType = contentData.contentType,
        !.releaseDate = contentData.releaseDate, !.runtime = contentData.runtime,
        !.malId = contentData.malId, !.malScore = contentData.malScore,
        !.malScoredBy = contentData.malScoredBy, !.malRank = contentData.malRank,
        !.malStatus = contentData.malStatus, !.malEpisodes = contentData.malEpisodes,
        !.malSource = contentData.malSource, !.malRating = contentData.malRating,
        !.genres = contentData.genres, !.studios = contentData.studios,
        !.alternativeTitles = contentData.alternativeTitles]

---------------------------------------------------------------------------
(* Candidate matcher: findDuplicateContent *)

\* The filter of the findOne call for one title variation.
MatchesVariation(doc, variation, contentType) ==
    /\ doc.contentType = contentType
    /\ \/ ContainsIgnoreCase(doc.title, variation)
       \/ \E i \in 1..Len(doc.alternativeTitles) :
              ContainsIgnoreCase(doc.alternativeTitles[i], variation)

\* The orders in which a query without a sort may visit n documents: the
\* code fixes none, the query plan (collection scan or one of the indexes on
\* title and contentType) decides.
ScanOrders(n) == Permutations(1..n)

\* Content.findOne: the first matching document in the order of the scan, or 0.
FindOne(docs, variation, contentType, order) ==
    LET hits == {k \in 1..Len(docs) :
                    MatchesVariation(docs[order[k]], variation, contentType)}
    IN  IF hits = {} THEN 0 ELSE order[CHOOSE k \in hits : \A j \in hits : k <= j]

\* The loop without the test that the candidate is not yet in duplicates.
RECURSIVE CollectDuplicatesAgain(_, _, _, _, _)
CollectDuplicatesAgain(docs, contentData, order, titleVariations, duplicates) ==
    IF titleVariations = <<>> THEN duplicates
    ELSE LET byTitle ==
                 FindOne(docs, Head(titleVariations), contentData.contentType, order)
             found == /\ byTitle # 0
                      /\ isLikelySameContent(contentData, docs[byTitle])
         IN  CollectDuplicatesAgain(docs, contentData, order, Tail(titleVariations),
                                    IF found THEN Append(duplicates, byTitle) ELSE duplicates)

RECURSIVE CollectDuplicates(_, _, _, _, _)
CollectDuplicates(docs, contentData, order, titleVariations, duplicates) ==
    IF titleVariations = <<>> THEN duplicates
    ELSE LET byTitle ==
                 FindOne(docs, Head(titleVariations), contentData.contentType, order)
             found == /\ byTitle # 0
                      /\ ~Includes(duplicates, byTitle)
                      /\ isLikelySameContent(contentData, docs[byTitle])
         IN  CollectDuplicates(docs, contentData, order, Tail(titleVariations),
                               IF found THEN Append(duplicates, byTitle) ELSE duplicates)

\* const titleVariations = this.generateTitleVariations(contentData.title),
\* computed once for each title the providers deliver.
TitleVariationsOf ==
    [title \in {d.title : d \in TmdbPool \cup MalPool} |-> generateTitleVariations(title)]

\* The ids (positions in the collection) of the accepted candidates, in order.
findDuplicateContent(docs, contentData, order) ==
    CollectDuplicates(docs, contentData, order, TitleVariationsOf[contentData.title], <<>>)

---------------------------------------------------------------------------
(* Merge engine *)

\* `id:${genre.id}` or `name:${genre.name.toLowerCase()}`
GenreKey(genre) ==
    IF Truthy(genre.id) THEN <<"id", genre.id, <<>>>>
    ELSE <<"name", NULL, toLowerCase(genre.name)>>

RECURSIVE deduplicateGenres(_)
deduplicateGenres(genres) ==
    IF genres = <<>> THEN <<>>
    ELSE LET front == deduplicateGenres(SubSeq(genres, 1, Len(genres) - 1))
             genre == genres[Len(genres)]
         IN  IF genre.name = <<>> THEN front
             ELSE IF \E i \in 1..Len(front) : GenreKey(front[i]) = GenreKey(genre)
                  THEN front
             ELSE Append(front, genre)

isAnimeContent(contentData) ==
    LET animeKeywords == {<<"a", "n", "i", "m", "e">>, <<"m", "a", "n", "g", "a">>,
                          <<"j", "a", "p", "a", "n", "e", "s", "e">>,
                          <<"j", "a", "p", "a", "n">>}
    IN  \E keyword \in animeKeywords :
            \/ Contains(toLowerCase(contentData.title), keyword)
            \/ Contains(toLowerCase(contentData.overview), keyword)
            \/ \E i \in 1..Len(contentData.studios) :
                   Contains(toLowerCase(contentData.studios[i]), keyword)

\* a || b || 0 on scores, as a fraction
FirstScoreOrZero(a, b) ==
    IF Truthy(a) THEN Rat(a, 1) ELSE IF Truthy(b) THEN Rat(b, 1) ELSE Rat(0, 1)

\* relationshipService.processRelationshipsDuringMerge: folds the franchise the
\* source data implies into the record's relationship fields.
processRelationshipsDuringMerge(existingContent, sourceData) ==
    IF sourceData.franchise # "" THEN [existingContent EXCEPT !.franchise = sourceData.franchise]
    ELSE existingContent

\* relationshipService.detectRelationshipsFromExternalData(...).franchise?.name
detectFranchise(sourceData) == sourceData.franchise

MergeTmdbScoreAlways(existingContent, tmdbData) ==
    calculateUnifiedScoreWithUserRatings(
        tmdbData.voteAverage, tmdbData.voteCount,
        existingContent.malScore, existingContent.malScoredBy,
        existingContent.userRatingAverage, existingContent.userRatingCount)

\* The unified score mergeTmdbIntoExisting stores.
MergeTmdbScore(existingContent, tmdbData) ==
    IF Truthy(existingContent.malScore) /\ Truthy(tmdbData.voteAverage)
    THEN calculateUnifiedScoreWithUserRatings(
             tmdbData.voteAverage, tmdbData.voteCount,
             existingContent.malScore, existingContent.malScoredBy,
             existingContent.userRatingAverage, existingContent.userRatingCount)
    ELSE FirstScoreOrZero(tmdbData.voteAverage, existingContent.malScore)

\* The merge without its final save: the stored document stays as it was.
mergeTmdbUnsaved(existingContent, tmdbData, now) == existingContent

mergeTmdbIntoExisting(existingContent, tmdbData, now) ==
    LET merged ==
            [existingContent EXCEPT
                !.tmdbId = tmdbData.tmdbId,
                !.voteAverage = tmdbData.voteAverage,
                !.voteCount = tmdbData.voteCount,
                !.popularity = tmdbData.popularity,
                !.studios = Unique(existingContent.studios \o tmdbData.studios),
                !.alternativeTitles =
                    Unique(existingContent.alternativeTitles \o tmdbData.alternativeTitles),
                !.genres = deduplicateGenres(existingContent.genres \o tmdbData.genres),
                !.unifiedScore = MergeTmdbScore(existingContent, tmdbData)]
        linked == processRelationshipsDuringMerge(merged, tmdbData)
    IN  [linked EXCEPT
            !.dataSources.tmdb = [hasData |-> TRUE, lastUpdated |-> now],
            !.lastUpdated = now]

\* The MAL score taking priority over the weighted calculation.
MergeMalScorePriority(existingContent, malData) ==
    FirstScoreOrZero(malData.malScore, existingContent.voteAverage)

\* The unified score mergeMalIntoExisting stores.
MergeMalScore(existingContent, malData) ==
    IF Truthy(existingContent.voteAverage) /\ Truthy(malData.malScore)
    THEN calculateUnifiedScoreWithUserRatings(
             existingContent.voteAverage, existingContent.voteCount,
             malData.malScore, malData.malScoredBy,
             existingContent.userRatingAverage, existingContent.userRatingCount)
    ELSE FirstScoreOrZero(malData.malScore, existingContent.voteAverage)

\* The anime branch taking every descriptive field from the MAL data.
FillDescriptiveOverwrite(existingContent, malData) ==
    IF isAnimeContent(malData)
    THEN [existingContent EXCEPT
            !.title = malData.title, !.overview = malData.overview,
            !.posterPath = malData.posterPath, !.releaseDate = malData.releaseDate]
    ELSE existingContent

\* The shared descriptive fields after the anime branch of mergeMalIntoExisting.
FillDescriptive(existingContent, malData) ==
    IF isAnimeContent(malData)
    THEN [existingContent EXCEPT
            !.title = IF existingContent.title = <<>>
                         \/ Len(existingContent.title) < Len(malData.title)
                      THEN malData.title ELSE @,
            !.overview = IF existingContent.overview = <<>>
                            \/ Len(existingContent.overview) < Len(malData.overview)
                         THEN malData.overview ELSE @,
            !.posterPath = IF existingContent.posterPath = "" THEN malData.posterPath ELSE @,
            !.releaseDate = IF existingContent.releaseDate = NULL
                            THEN malData.releaseDate ELSE @]
    ELSE existingContent

\* The MAL fields taken from the data only where the data has a value.
MergeMalFieldsIfPresent(existingContent, malData) ==
    [existingContent EXCEPT
        !.malId = malData.malId,
        !.malScore = IF malData.malScore = NULL THEN @ ELSE malData.malScore,
        !.malScoredBy = IF malData.malScoredBy = NULL THEN @ ELSE malData.malScoredBy,
        !.malRank = IF malData.malRank = NULL THEN @ ELSE malData.malRank,
        !.malStatus = malData.malStatus,
        !.malEpisodes = IF malData.malEpisodes = NULL THEN @ ELSE malData.malEpisodes,
        !.malSource = IF malData.malSource = "" THEN @ ELSE malData.malSource,
        !.malRating = IF malData.malRating = "" THEN @ ELSE malData.malRating]

\* "Always merge MAL-specific fields"
MergeMalFields(existingContent, malData) ==
    [existingContent EXCEPT
        !.malId = malData.malId,
        !.malScore = malData.malScore,
        !.malScoredBy = malData.malScoredBy,
        !.malRank = malData.malRank,
        !.malStatus = malData.malStatus,
        !.malEpisodes = malData.malEpisodes,
        !.malSource = malData.malSource,
        !.malRating = malData.malRating]

mergeMalIntoExisting(existingContent, malData, now) ==
    LET filled == FillDescriptive(existingContent, malData)
        merged ==
            [MergeMalFields(filled, malData) EXCEPT
                !.studios = Unique(filled.studios \o malData.studios),
                !.alternativeTitles =
                    Unique(filled.alternativeTitles \o malData.alternativeTitles),
                !.genres = deduplicateGenres(filled.genres \o malData.genres),
                !.unifiedScore = MergeMalScore(filled, malData)]
        linked == processRelationshipsDuringMerge(merged, malData)
    IN  [linked EXCEPT
            !.dataSources.mal = [hasData |-> TRUE, lastUpdated |-> now],
            !.lastUpdated = now]

\* The document saveTmdbContent creates when no candidate was accepted.
NewTmdbContent(contentData, id, now) ==
    LET score == calculateUnifiedScoreWithUserRatings(
                     contentData.voteAverage, contentData.voteCount, NULL, NULL, NULL, 0)
    IN  [contentData EXCEPT
            !.id = id,
            !.unifiedScore = IF IsNull(score) /\ Truthy(contentData.voteAverage)
                             THEN Rat(contentData.voteAverage, 1) ELSE score,
            !.userRatingAverage = NULL,
            !.userRatingCount = 0,
            !.franchise = detectFranchise(contentData),
            !.genres = deduplicateGenres(contentData.genres),
            !.lastUpdated = now]

\* The document saveMalContent creates when no candidate was accepted.
NewMalContent(contentData, id, now) ==
    LET score == calculateUnifiedScoreWithUserRatings(
                     NULL, NULL, contentData.malScore, contentData.malScoredBy, NULL, 0)
    IN  [contentData EXCEPT
            !.id = id,
            !.unifiedScore = IF ~IsNull(score) THEN score
                             ELSE FirstScoreOrZero(contentData.malScore, NULL),
            !.userRatingAverage = NULL,
            !.userRatingCount = 0,
            !.dataSources = [mal |-> [hasData |-> TRUE, lastUpdated |-> now],
                             tmdb |-> [hasData |-> FALSE, lastUpdated |-> NULL]],
            !.franchise = detectFranchise(contentData),
            !.genres = deduplicateGenres(contentData.genres),
            !.lastUpdated = now]

\* The malId-keyed update of saveMalContent.
UpdateMalContent(existingContent, contentData, now) ==
    LET assigned == AssignMalData(existingContent, contentData)
    IN  [assigned EXCEPT !.genres = deduplicateGenres(assigned.genres),
                         !.lastUpdated = now]

---------------------------------------------------------------------------
(* The variables of each specification at rest *)

NoRun == [multi |-> FALSE, tmdb |-> FALSE, mal |-> FALSE, user |-> FALSE,
          scores |-> <<>>, weights |-> <<>>, result |-> NullScore]

NoPrev == [called |-> FALSE, args |-> [ts |-> NULL, tv |-> NULL, ms |-> NULL,
                                       mv |-> NULL, ua |-> NULL, uc |-> 0],
           res |-> NoRun]

NoFact == [contentType |-> "movie", releaseDate |-> NULL, genres |-> <<>>,
           episodeCount |-> NULL, malEpisodes |-> NULL, runtime |-> NULL]

NoFactRes == [checked |-> FALSE, reason |-> "none"]

ScoreIdle ==
    /\ scArgs = NoPrev.args
    /\ scRes = [called |-> FALSE, run |-> NoRun]
    /\ scPrev = NoPrev
    /\ scRaised = "none"

FactIdle ==
    /\ fcNew = NoFact
    /\ fcOld = NoFact
    /\ fcRes = NoFactRes
    /\ fcPrev = NoFactRes
    /\ fcRemoved = <<"none", "none">>

NoStats == [totalProcessed |-> 0, newAdded |-> 0, updated |-> 0, merged |-> 0,
            errors |-> 0, skipped |-> 0]

NoLast == [kind |-> "none", provider |-> "none", data |-> EmptyContent,
           duplicates |-> <<>>, target |-> 0, before |-> <<>>]

PipeIdle ==
    /\ store = <<>>
    /\ stats = NoStats
    /\ last = NoLast

NoMerge == [provider |-> "none", data |-> EmptyContent, before |-> EmptyContent,
            once |-> EmptyContent, rec |-> EmptyContent, count |-> 0]

MergeIdle == merge = NoMerge

NoBatch == [fn |-> "none", limit |-> 0, at |-> "idle", index |-> 0, pending |-> 0,
            processed |-> 0, errors |-> 0, thrown |-> 0, fetchErrors |-> 0]

BatchIdle == batch = NoBatch

NoCall == [provider |-> "none", data |-> EmptyContent, at |-> "idle", todo |-> <<>>,
           duplicates |-> <<>>, seen |-> <<>>, did |-> "none"]

NoRace == [store |-> <<>>, calls |-> <<NoCall, NoCall>>, writes |-> 0]

RaceIdle == race = NoRace

NoTitle == [at |-> "idle", title |-> <<>>, variations |-> <<>>, again |-> <<>>]

TitleIdle == ttl = NoTitle

\* A user document as login reads and writes it.
NoUser == [failedLoginAttempts |-> 0, lockUntil |-> NULL, lastLogin |-> NULL]

NoRequest == [at |-> "idle", email |-> "none", password |-> "none", user |-> NoUser, status |-> 0, compared |-> FALSE]

NoAuth == [user |-> NoUser, now |-> 0, requests |-> <<NoRequest, NoRequest>>, started |-> 0, failed |-> 0, locked |-> FALSE]

AuthIdle == auth = NoAuth

NoBan == [at |-> "idle", ip |-> "none", hostname |-> "none", env |-> "none", banned |-> FALSE, lookup |-> "none", save |-> "none", looked |-> FALSE, next |-> 0, status |-> 0]

BanIdle == ban = NoBan

NoWatchRequest == [fn |-> "none", contentId |-> <<>>, code |-> 0, before |-> <<>>]

NoWatch == [watchlist |-> <<>>, last |-> NoWatchRequest, requests |-> 0]

WatchIdle == watch = NoWatch

NoPagination == [currentPage |-> 0, totalPages |-> 0, totalItems |-> 0, itemsPerPage |-> 0,
                 hasNextPage |-> FALSE, hasPrevPage |-> FALSE]

NoSearch ==
    [at |-> "idle", stored |-> {}, query |-> <<>>, type |-> "", limit |-> 0, page |-> 0,
     dbResults |-> <<>>, externalResults |-> <<>>, logged |-> "", status |-> 0,
     content |-> <<>>, pagination |-> NoPagination]

SearchIdle == search = NoSearch

ApiIdle == TitleIdle /\ AuthIdle /\ BanIdle /\ WatchIdle /\ SearchIdle

---------------------------------------------------------------------------
(* Specification Spec: the ingestion pipeline on the Content collection *)

MaxIngests == 3

MaxRated == 1

\* new Date(): the time is counted in ingests.
Now == stats.totalProcessed + 1

\* The counter of the outcome alone.
BumpOutcomeOnly(field) == [stats EXCEPT ![field] = @ + 1]

Bump(field) == [stats EXCEPT !.totalProcessed = @ + 1, ![field] = @ + 1]

Init ==
    /\ PipeIdle
    /\ ScoreIdle
    /\ FactIdle
    /\ MergeIdle
    /\ BatchIdle
    /\ RaceIdle
    /\ ApiIdle

\* What is remembered of the input of an ingest that wrote nothing: the
\* record when it lacks its title, nothing otherwise.
Unwritten(contentData) ==
    IF contentData.title = <<>> THEN contentData ELSE EmptyContent

\* An ingest that wrote nothing: a skipped record or a caught error.
NoWrite(kind, provider, contentData) ==
    /\ stats' = Bump(IF kind = "skipped" THEN "skipped" ELSE "errors")
    /\ last' = [kind |-> kind, provider |-> provider, data |-> Unwritten(contentData),
                duplicates |-> <<>>, target |-> 0, before |-> store]
    /\ UNCHANGED store

\* The title-match part shared by both providers: merge into the first accepted
\* candidate, or create a new document.
MergeOrCreate(provider, contentData) ==
    IF contentData.title = <<>>
    THEN \* title.toLowerCase() in generateTitleVariations throws a TypeError
         NoWrite("error", provider, contentData)
    ELSE
    \E duplicates \in {findDuplicateContent(store, contentData, order) :
                            order \in ScanOrders(Len(store))} :
        LET now == Now
        IN  IF Len(duplicates) > 0
            THEN LET target == duplicates[1]
                     merged == IF provider = "tmdb"
                               THEN mergeTmdbIntoExisting(store[target], contentData, now)
                               ELSE mergeMalIntoExisting(store[target], contentData, now)
                 IN  /\ store' = [store EXCEPT ![target] = merged]
                     /\ stats' = Bump("merged")
                     /\ last' = [kind |-> "merged", provider |-> provider,
                                 data |-> contentData, duplicates |-> duplicates,
                                 target |-> target, before |-> store]
            ELSE LET id == Len(store) + 1
                     created == IF provider = "tmdb"
                                THEN NewTmdbContent(contentData, id, now)
                                ELSE NewMalContent(contentData, id, now)
                 IN  /\ store' = Append(store, created)
                     /\ stats' = Bump("newAdded")
                     /\ last' = [kind |-> "created", provider |-> provider,
                                 data |-> contentData, duplicates |-> duplicates,
                                 target |-> id, before |-> store]

\* saveTmdbContent on one source record. outcome is what the collaborators do:
\* the detail fetch or the conversion returns null, some awaited call throws,
\* or all of them succeed.
SaveTmdbContent ==
    /\ stats.totalProcessed < MaxIngests
    /\ \E contentData \in TmdbPool \cup {TmdbUntitled} :
       \E outcome \in {"ok", "nodetail", "noconvert", "throws"} :
          IF outcome \in {"nodetail", "noconvert"}
          THEN NoWrite("skipped", "tmdb", contentData)
          ELSE IF outcome = "throws"
          THEN NoWrite("error", "tmdb", contentData)
          ELSE MergeOrCreate("tmdb", contentData)
    /\ UNCHANGED <<scoreVars, factVars, mergeVars, batchVars, raceVars, apiVars>>

\* Content.findOne({ malId }): the first document with that malId, or 0.
FindByMalId(docs, malId) ==
    LET hits == {i \in 1..Len(docs) : docs[i].malId = malId}
    IN  IF hits = {} THEN 0 ELSE CHOOSE i \in hits : \A j \in hits : i <= j

\* saveMalContent on one source record.
SaveMalContent ==
    /\ stats.totalProcessed < MaxIngests
    /\ \E contentData \in MalPool \cup {MalUntitled} :
       \E outcome \in {"ok", "throws"} :
          LET existing == FindByMalId(store, contentData.malId)
          IN  IF outcome = "throws"
              THEN NoWrite("error", "mal", contentData)
              ELSE IF existing # 0
              THEN /\ store' = [store EXCEPT ![existing] =
                                   UpdateMalContent(store[existing], contentData, Now)]
                   /\ stats' = Bump("updated")
                   /\ last' = [kind |-> "updated", provider |-> "mal",
                               data |-> contentData, duplicates |-> <<>>,
                               target |-> existing, before |-> store]
              ELSE MergeOrCreate("mal", contentData)
    /\ UNCHANGED <<scoreVars, factVars, mergeVars, batchVars, raceVars, apiVars>>

\* The aggregated ratings of the application's users (average in tenths, count).
UserRatings == {<<90, 5>>, <<60, 2>>}

\* calculateInitialUserRatings on one rated document: the only writer of the
\* user aggregate the merge functions read.
CalculateInitialUserRatings ==
    /\ Cardinality({j \in 1..Len(store) : store[j].userRatingCount > 0}) < MaxRated
    /\ \E i \in 1..Len(store) :
       \E rating \in UserRatings :
          /\ store[i].userRatingCount = 0
          /\ LET c == store[i]
                 score == calculateUnifiedScoreWithUserRatings(
                              c.voteAverage, c.voteCount, c.malScore, c.malScoredBy,
                              rating[1], rating[2])
             IN  store' = [store EXCEPT ![i] =
                              [c EXCEPT !.userRatingAverage = rating[1],
                                        !.userRatingCount = rating[2],
                                        !.unifiedScore = score]]
          /\ last' = [kind |-> "rated", provider |-> "user", data |-> EmptyContent,
                      duplicates |-> <<>>, target |-> i, before |-> store]
    /\ UNCHANGED stats
    /\ UNCHANGED <<scoreVars, factVars, mergeVars, batchVars, raceVars, apiVars>>

Next == SaveTmdbContent \/ SaveMalContent \/ CalculateInitialUserRatings

Spec == Init /\ [][Next]_vars

---------------------------------------------------------------------------
(* Specification SpecRun: the ingests of Spec within a run in which the fetch
   of a page or of a batch can fail. *)

MaxFetchErrors == 1

\* The catch of a page (populateTmdbContent) or of a batch (populateMalContent):
\* the fetch threw before any record of it was processed.
FetchThrown ==
    /\ batch.fetchErrors < MaxFetchErrors
    /\ batch' = [batch EXCEPT !.fetchErrors = @ + 1]
    /\ stats' = [stats EXCEPT !.errors = @ + 1]
    /\ UNCHANGED <<store, last>>
    /\ UNCHANGED <<scoreVars, factVars, mergeVars, raceVars, apiVars>>

RunNext == Next \/ FetchThrown

SpecRun == Init /\ [][RunNext]_vars

---------------------------------------------------------------------------
(* Specification SpecScore: the score unifier applied to drawn inputs *)

TmdbScores == {NULL, 0, 75, 80}
TmdbVotes == {NULL, 0, 1, 10, 11, 5000}
MalScores == {NULL, 70, 89}
MalVotes == {NULL, 0, 1, 100, 101, 800}
UserAverages == {NULL, 60, 90}
UserCounts == {0, 4, 5, 20}

ScoreArgs == [ts : TmdbScores, tv : TmdbVotes, ms : MalScores, mv : MalVotes,
              ua : UserAverages, uc : UserCounts]

RunOn(a) == UnifierRun(a.ts, a.tv, a.ms, a.mv, a.ua, a.uc)

ScoreInit ==
    /\ scArgs \in ScoreArgs
    /\ scRes = [called |-> FALSE, run |-> NoRun]
    /\ scPrev = NoPrev
    /\ scRaised = "none"
    /\ FactIdle
    /\ PipeIdle
    /\ MergeIdle
    /\ BatchIdle
    /\ RaceIdle
    /\ ApiIdle

\* The unifier is called on the drawn arguments.
ScoreCompute ==
    /\ ~scRes.called
    /\ scRes' = [called |-> TRUE, run |-> RunOn(scArgs)]
    /\ UNCHANGED <<scArgs, scPrev, scRaised>>
    /\ UNCHANGED factVars
    /\ UNCHANGED pipeVars
    /\ UNCHANGED <<mergeVars, batchVars, raceVars, apiVars>>

\* One source's score goes up, every count stays, and the unifier is called again.
ScoreRaise(field, tag, domain) ==
    /\ scRes.called
    /\ \E s \in domain :
          /\ scArgs[field] # NULL
          /\ s > scArgs[field]
          /\ scArgs' = [scArgs EXCEPT ![field] = s]
          /\ scRes' = [called |-> TRUE, run |-> RunOn(scArgs')]
    /\ scPrev' = [called |-> TRUE, args |-> scArgs, res |-> scRes.run]
    /\ scRaised' = tag
    /\ UNCHANGED factVars
    /\ UNCHANGED pipeVars
    /\ UNCHANGED <<mergeVars, batchVars, raceVars, apiVars>>

ScoreRaiseTmdb == ScoreRaise("ts", "tmdb", TmdbScores)

ScoreRaiseMal == ScoreRaise("ms", "mal", MalScores)

ScoreRaiseUser == ScoreRaise("ua", "user", UserAverages)

ScoreNext == ScoreCompute \/ ScoreRaiseTmdb \/ ScoreRaiseMal \/ ScoreRaiseUser

SpecScore == ScoreInit /\ [][ScoreNext]_vars

---------------------------------------------------------------------------
(* Specification SpecFact: the fact checker applied to drawn pairs *)

FactInit ==
    /\ fcNew \in FactRecords
    /\ fcOld \in FactRecords
    /\ fcRes = NoFactRes
    /\ fcPrev = NoFactRes
    /\ fcRemoved = <<"none", "none">>
    /\ ScoreIdle
    /\ PipeIdle
    /\ MergeIdle
    /\ BatchIdle
    /\ RaceIdle
    /\ ApiIdle

\* isLikelySameContent is called on the drawn pair.
FactApply ==
    /\ ~fcRes.checked
    /\ fcRes' = [checked |-> TRUE, reason |-> FactCheck(fcNew, fcOld)]
    /\ UNCHANGED <<fcNew, fcOld, fcPrev, fcRemoved>>
    /\ UNCHANGED scoreVars
    /\ UNCHANGED pipeVars
    /\ UNCHANGED <<mergeVars, batchVars, raceVars, apiVars>>

\* A record without the named datum.
Without(content, field) ==
    CASE field = "releaseDate" -> [content EXCEPT !.releaseDate = NULL]
      [] field = "genres" -> [content EXCEPT !.genres = <<>>]
      [] field = "episodes" -> [content EXCEPT !.episodeCount = NULL, !.malEpisodes = NULL]
      [] field = "runtime" -> [content EXCEPT !.runtime = NULL]

Removable == {"releaseDate", "genres", "episodes", "runtime"}

\* One datum is removed from the new record and the pair is checked again.
FactRemoveFromNew ==
    /\ fcRes.checked
    /\ \E f \in Removable :
          /\ Without(fcNew, f) # fcNew
          /\ fcNew' = Without(fcNew, f)
          /\ fcRes' = [checked |-> TRUE, reason |-> FactCheck(fcNew', fcOld)]
          /\ fcRemoved' = <<"new", f>>
    /\ fcPrev' = fcRes
    /\ UNCHANGED fcOld
    /\ UNCHANGED scoreVars
    /\ UNCHANGED pipeVars
    /\ UNCHANGED <<mergeVars, batchVars, raceVars, apiVars>>

\* One datum is removed from the stored record and the pair is checked again.
FactRemoveFromExisting ==
    /\ fcRes.checked
    /\ \E f \in Removable :
          /\ Without(fcOld, f) # fcOld
          /\ fcOld' = Without(fcOld, f)
          /\ fcRes' = [checked |-> TRUE, reason |-> FactCheck(fcNew, fcOld')]
          /\ fcRemoved' = <<"existing", f>>
    /\ fcPrev' = fcRes
    /\ UNCHANGED fcNew
    /\ UNCHANGED scoreVars
    /\ UNCHANGED pipeVars
    /\ UNCHANGED <<mergeVars, batchVars, raceVars, apiVars>>

FactNext == FactApply \/ FactRemoveFromNew \/ FactRemoveFromExisting

SpecFact == FactInit /\ [][FactNext]_vars

---------------------------------------------------------------------------
(* Specification SpecMerge: the merge engine applied repeatedly to one record *)

MaxMerges == 2

\* calculateInitialUserRatings on one stored record.
Rated(record, rating) ==
    [record EXCEPT !.userRatingAverage = rating[1], !.userRatingCount = rating[2]]

\* Records the pipeline stores: created from one provider's data, or created
\* from one and merged with the other's, with or without user ratings.
StoredRecords ==
    LET created == {NewTmdbContent(t, 1, 1) : t \in TmdbPool}
                   \cup {NewMalContent(m, 1, 1) : m \in MalPool}
        mergedMal == {mergeMalIntoExisting(NewTmdbContent(t, 1, 1), m, 2) :
                         t \in TmdbPool, m \in MalPool}
        mergedTmdb == {mergeTmdbIntoExisting(NewMalContent(m, 1, 1), t, 2) :
                          t \in TmdbPool, m \in MalPool}
        unrated == created \cup mergedMal \cup mergedTmdb
    IN  unrated \cup {Rated(r, u) : r \in unrated, u \in UserRatings}

\* The record is the one findDuplicateContent hands to the merge.
MergeTarget(record, contentData) ==
    findDuplicateContent(<<record>>, contentData, <<1>>) # <<>>

MergeInit ==
    /\ \E record \in StoredRecords :
          \/ \E t \in TmdbPool :
                 /\ MergeTarget(record, t)
                 /\ merge = [NoMerge EXCEPT !.provider = "tmdb", !.data = t,
                                            !.before = record, !.rec = record]
          \/ \E m \in MalPool :
                 /\ MergeTarget(record, m)
                 /\ merge = [NoMerge EXCEPT !.provider = "mal", !.data = m,
                                            !.before = record, !.rec = record]
    /\ ScoreIdle
    /\ FactIdle
    /\ PipeIdle
    /\ BatchIdle
    /\ RaceIdle
    /\ ApiIdle

\* What one more merge leaves in the variable.
Merged(record) ==
    [merge EXCEPT !.rec = record,
                  !.once = IF merge.count = 0 THEN record ELSE @,
                  !.count = @ + 1]

MergeTmdb ==
    /\ merge.provider = "tmdb"
    /\ merge.count < MaxMerges
    /\ merge' = Merged(mergeTmdbIntoExisting(merge.rec, merge.data, merge.count + 3))
    /\ UNCHANGED <<scoreVars, factVars, pipeVars, batchVars, raceVars, apiVars>>

MergeMal ==
    /\ merge.provider = "mal"
    /\ merge.count < MaxMerges
    /\ merge' = Merged(mergeMalIntoExisting(merge.rec, merge.data, merge.count + 3))
    /\ UNCHANGED <<scoreVars, factVars, pipeVars, batchVars, raceVars, apiVars>>

MergeNext == MergeTmdb \/ MergeMal

SpecMerge == MergeInit /\ [][MergeNext]_vars

---------------------------------------------------------------------------
(* Specification SpecBatch: one run of populateTmdbContent or populateMalContent.
   A call of saveTmdbContent / saveMalContent appears by its outcome only: what
   it does to the collection is the subject of Spec. *)

MaxFetched == 2

\* "TMDB returns 20 per page"
TmdbPerPage == 20

\* this.batchSize
batchSize == 10

\* The limit argument of the run.
Limits == {1, 2, TmdbPerPage + 1}

\* Math.ceil(a / b)
Ceil(a, b) == (a + b - 1) \div b

pages == Ceil(batch.limit, TmdbPerPage)

movieLimit == batch.limit \div 2

tvLimit == batch.limit - movieLimit

batches == Ceil(movieLimit, batchSize)

tvBatches == Ceil(tvLimit, batchSize)

BatchInit ==
    /\ \E fn \in {"tmdb", "mal"} :
       \E limit \in Limits :
          batch = [NoBatch EXCEPT !.fn = fn, !.limit = limit, !.at = "movieHead",
                                  !.index = IF fn = "tmdb" THEN 1 ELSE 0]
    /\ ScoreIdle
    /\ FactIdle
    /\ PipeIdle
    /\ MergeIdle
    /\ RaceIdle
    /\ ApiIdle

\* A save that lets its error escape: the loop is left by the exception.
SavedRethrown(outcome) ==
    IF outcome = "throws"
    THEN [batch EXCEPT !.at = "failed", !.thrown = @ + 1]
    ELSE [batch EXCEPT !.processed = @ + 1, !.pending = @ - 1]

\* await this.saveTmdbContent(...) / this.saveMalContent(...); processed++ :
\* an error inside the save is caught there and counted.
Saved(outcome) ==
    [batch EXCEPT !.processed = @ + 1, !.pending = @ - 1,
                  !.errors = IF outcome = "throws" THEN @ + 1 ELSE @,
                  !.thrown = IF outcome = "throws" THEN @ + 1 ELSE @]

\* The fetch of a list threw: the catch of the page or batch counts it and the
\* loop goes on with the next page or batch.
FetchFailed(head) ==
    [batch EXCEPT !.errors = @ + 1, !.fetchErrors = @ + 1, !.index = @ + 1,
                  !.at = head, !.pending = 0]

\* The fetch returned n source records.
Fetched(list, n) == [batch EXCEPT !.at = list, !.pending = n]

\* A fetch by the provider service: it throws or returns some records.
Fetch(list, head) ==
    \/ batch' = FetchFailed(head)
    \/ \E n \in 0..MaxFetched : batch' = Fetched(list, n)

\* One turn of a for-of loop over the fetched records with its limit test.
SaveNext(bound) ==
    /\ batch.pending > 0
    /\ batch.processed < bound
    /\ \E outcome \in {"ok", "skipped", "throws"} : batch' = Saved(outcome)

\* The for-of loop is over: the list is exhausted or the limit test broke it.
ListDone(bound) == batch.pending = 0 \/ batch.processed >= bound

Idle == UNCHANGED <<scoreVars, factVars, pipeVars, mergeVars, raceVars, apiVars>>

TmdbFetchMovies ==
    /\ batch.fn = "tmdb" /\ batch.at = "movieHead"
    /\ batch.index <= pages /\ batch.processed < batch.limit
    /\ Fetch("movies", "movieHead")
    /\ Idle

TmdbSaveMovie ==
    /\ batch.fn = "tmdb" /\ batch.at = "movies"
    /\ SaveNext(batch.limit)
    /\ Idle

TmdbFetchTvShows ==
    /\ batch.fn = "tmdb" /\ batch.at = "movies"
    /\ ListDone(batch.limit)
    /\ Fetch("tv", "movieHead")
    /\ Idle

TmdbSaveTvShow ==
    /\ batch.fn = "tmdb" /\ batch.at = "tv"
    /\ SaveNext(batch.limit)
    /\ Idle

TmdbNextPage ==
    /\ batch.fn = "tmdb" /\ batch.at = "tv"
    /\ ListDone(batch.limit)
    /\ batch' = [batch EXCEPT !.index = @ + 1, !.at = "movieHead", !.pending = 0]
    /\ Idle

TmdbCompleted ==
    /\ batch.fn = "tmdb" /\ batch.at = "movieHead"
    /\ ~(batch.index <= pages /\ batch.processed < batch.limit)
    /\ batch' = [batch EXCEPT !.at = "done"]
    /\ Idle

MalFetchMovies ==
    /\ batch.fn = "mal" /\ batch.at = "movieHead"
    /\ batch.index < batches /\ batch.processed < movieLimit
    /\ Fetch("movies", "movieHead")
    /\ Idle

MalSaveMovie ==
    /\ batch.fn = "mal" /\ batch.at = "movies"
    /\ SaveNext(movieLimit)
    /\ Idle

MalNextMovieBatch ==
    /\ batch.fn = "mal" /\ batch.at = "movies"
    /\ ListDone(movieLimit)
    /\ batch' = [batch EXCEPT !.index = @ + 1, !.at = "movieHead", !.pending = 0]
    /\ Idle

MalMoviesCompleted ==
    /\ batch.fn = "mal" /\ batch.at = "movieHead"
    /\ ~(batch.index < batches /\ batch.processed < movieLimit)
    /\ batch' = [batch EXCEPT !.index = 0, !.at = "tvHead"]
    /\ Idle

MalFetchTvShows ==
    /\ batch.fn = "mal" /\ batch.at = "tvHead"
    /\ batch.index < tvBatches /\ batch.processed < batch.limit
    /\ Fetch("tv", "tvHead")
    /\ Idle

MalSaveTvShow ==
    /\ batch.fn = "mal" /\ batch.at = "tv"
    /\ SaveNext(batch.limit)
    /\ Idle

MalNextTvBatch ==
    /\ batch.fn = "mal" /\ batch.at = "tv"
    /\ ListDone(batch.limit)
    /\ batch' = [batch EXCEPT !.index = @ + 1, !.at = "tvHead", !.pending = 0]
    /\ Idle

MalCompleted ==
    /\ batch.fn = "mal" /\ batch.at = "tvHead"
    /\ ~(batch.index < tvBatches /\ batch.processed < batch.limit)
    /\ batch' = [batch EXCEPT !.at = "done"]
    /\ Idle

populateTmdbContent ==
    \/ TmdbFetchMovies \/ TmdbSaveMovie \/ TmdbFetchTvShows
    \/ TmdbSaveTvShow \/ TmdbNextPage \/ TmdbCompleted

populateMalContent ==
    \/ MalFetchMovies \/ MalSaveMovie \/ MalNextMovieBatch \/ MalMoviesCompleted
    \/ MalFetchTvShows \/ MalSaveTvShow \/ MalNextTvBatch \/ MalCompleted

BatchNext == populateTmdbContent \/ populateMalContent

\* Every await of the run resolves or rejects: a run that can take a step
\* eventually takes one.
SpecBatch == BatchInit /\ [][BatchNext]_vars /\ WF_vars(BatchNext)

---------------------------------------------------------------------------
(* Specification SpecRace: two calls of saveTmdbContent / saveMalContent in
   flight at once on one collection, each advancing from await to await *)

Callers == {1, 2}

\* The collection when the two calls start: empty, or one record created
\* earlier from one provider's data.
RaceStores ==
    {<<>>} \cup {<<NewTmdbContent(t, 1, 1)>> : t \in TmdbPool}
           \cup {<<NewMalContent(m, 1, 1)>> : m \in MalPool}

RaceSources ==
    {[provider |-> "tmdb", data |-> t] : t \in TmdbPool}
        \cup {[provider |-> "mal", data |-> m] : m \in MalPool}

RaceInit ==
    /\ \E docs \in RaceStores :
       \E a, b \in RaceSources :
          race = [NoRace EXCEPT
                     !.store = docs,
                     !.calls = <<[NoCall EXCEPT !.provider = a.provider, !.data = a.data,
                                                !.at = "start"],
                                 [NoCall EXCEPT !.provider = b.provider, !.data = b.data,
                                                !.at = "start"]>>]
    /\ ScoreIdle
    /\ FactIdle
    /\ PipeIdle
    /\ MergeIdle
    /\ BatchIdle
    /\ ApiIdle

RaceFrame == UNCHANGED <<scoreVars, factVars, pipeVars, mergeVars, batchVars, apiVars>>

\* findDuplicateContent entered: the title variations still to be looked up.
Matching(call) ==
    LET titleVariations == TitleVariationsOf[call.data.title]
    IN  [call EXCEPT !.todo = titleVariations, !.seen = race.store,
                     !.at = IF titleVariations = <<>> THEN "matched" ELSE "matching"]

\* saveTmdbContent up to the call of findDuplicateContent: the detail fetch
\* has resolved and the data is converted.
RaceBeginTmdb(i) ==
    /\ race.calls[i].provider = "tmdb"
    /\ race.calls[i].at = "start"
    /\ race' = [race EXCEPT !.calls[i] = Matching(race.calls[i])]
    /\ RaceFrame

\* saveMalContent up to the call of findDuplicateContent: the lookup by malId
\* has resolved; a hit is updated and saved at once.
RaceBeginMal(i) ==
    /\ race.calls[i].provider = "mal"
    /\ race.calls[i].at = "start"
    /\ LET call == race.calls[i]
           existing == FindByMalId(race.store, call.data.malId)
       IN  IF existing # 0
           THEN race' = [race EXCEPT
                            !.store[existing] =
                                UpdateMalContent(@, call.data, race.writes + 2),
                            !.writes = @ + 1,
                            !.calls[i] = [call EXCEPT !.at = "done", !.did = "updated",
                                                      !.seen = race.store]]
           ELSE race' = [race EXCEPT !.calls[i] = Matching(call)]
    /\ RaceFrame

\* One turn of the loop of findDuplicateContent: one awaited Content.findOne
\* on the collection as it is now, and the fact check of what it returned.
RaceFindOne(i) ==
    /\ race.calls[i].at = "matching"
    /\ \E order \in ScanOrders(Len(race.store)) :
          LET call == race.calls[i]
              byTitle == FindOne(race.store, Head(call.todo), call.data.contentType, order)
              found == /\ byTitle # 0
                       /\ \A k \in 1..Len(call.duplicates) : call.duplicates[k].id # byTitle
                       /\ isLikelySameContent(call.data, race.store[byTitle])
          IN  race' = [race EXCEPT !.calls[i] =
                          [call EXCEPT
                              !.todo = Tail(@),
                              !.seen = race.store,
                              !.duplicates =
                                  IF found
                                  THEN Append(@, [id |-> byTitle,
                                                  content |-> race.store[byTitle]])
                                  ELSE @,
                              !.at = IF Tail(call.todo) = <<>> THEN "matched"
                                     ELSE "matching"]]
    /\ RaceFrame

\* existingContent.save() of a document read earlier: the paths the merge
\* changed on the document in memory are written, the others stay as stored.
SaveModified(stored, read, merged) ==
    [f \in DOMAIN stored |->
        IF f = "dataSources"
        THEN [p \in DOMAIN stored.dataSources |->
                 IF merged.dataSources[p] # read.dataSources[p]
                 THEN merged.dataSources[p] ELSE stored.dataSources[p]]
        ELSE IF merged[f] # read[f] THEN merged[f] ELSE stored[f]]

\* A write that is held back when the collection is no longer the one the
\* call matched against.
WriteIfUnchanged(i) == race.store = race.calls[i].seen

\* What stands between the end of findDuplicateContent and the save: no lock
\* and no version check.
WriteProceeds(i) == TRUE

\* The call is at its write and nothing holds it back.
CanWrite(i) == race.calls[i].at = "matched" /\ WriteProceeds(i)

\* The rest of the save after findDuplicateContent returned: merge into the
\* first candidate as the call read it, or create a new document.
RaceWrite(i) ==
    /\ CanWrite(i)
    /\ LET call == race.calls[i]
           now == race.writes + 2
       IN  IF Len(call.duplicates) > 0
           THEN LET existingContent == call.duplicates[1].content
                    target == call.duplicates[1].id
                    merged == IF call.provider = "tmdb"
                              THEN mergeTmdbIntoExisting(existingContent, call.data, now)
                              ELSE mergeMalIntoExisting(existingContent, call.data, now)
                IN  race' = [race EXCEPT
                                !.store[target] = SaveModified(@, existingContent, merged),
                                !.writes = @ + 1,
                                !.calls[i] = [call EXCEPT !.at = "done", !.did = "merged"]]
           ELSE LET id == Len(race.store) + 1
                    created == IF call.provider = "tmdb"
                               THEN NewTmdbContent(call.data, id, now)
                               ELSE NewMalContent(call.data, id, now)
                IN  race' = [race EXCEPT
                                !.store = Append(@, created),
                                !.writes = @ + 1,
                                !.calls[i] = [call EXCEPT !.at = "done", !.did = "created"]]
    /\ RaceFrame

RaceNext ==
    \E i \in Callers :
        RaceBeginTmdb(i) \/ RaceBeginMal(i) \/ RaceFindOne(i) \/ RaceWrite(i)

SpecRace == RaceInit /\ [][RaceNext]_vars

---------------------------------------------------------------------------
(* Specification SpecTitle: the title normalizer applied to drawn titles, and
   then to each variation it returned. *)

\* What the titles are put together from.
TitleParts ==
    {<<>>, <<"U", "p">>, <<"K", "o", "e">>, <<"T", "h", "e", " ">>, <<" ">>,
     <<" ", "(", "T", "V", ")">>, <<":", " ", "x">>, <<" ", "-", " ", "y">>,
     <<" ", "S", "e", "a", "s", "o", "n", " ", "2">>,
     <<" ", "S", "e", "a", "s", "o", "n", " ", "#", "2">>,
     <<" ", "M", "o", "v", "i", "e">>, <<"!">>}

\* title is required by the schema: a non-empty string.
Titles == {a \o b \o c : a, b, c \in TitleParts} \ {<<>>}

TitleInit ==
    /\ \E title \in Titles : ttl = [NoTitle EXCEPT !.at = "drawn", !.title = title]
    /\ ScoreIdle
    /\ FactIdle
    /\ PipeIdle
    /\ MergeIdle
    /\ BatchIdle
    /\ RaceIdle
    /\ AuthIdle /\ BanIdle /\ WatchIdle /\ SearchIdle

TitleFrame == UNCHANGED <<scoreVars, factVars, pipeVars, mergeVars, batchVars, raceVars, auth, ban, watch, search>>

\* const titleVariations = this.generateTitleVariations(contentData.title)
TitleGenerate ==
    /\ ttl.at = "drawn"
    /\ ttl' = [ttl EXCEPT !.at = "generated",
                          !.variations = generateTitleVariations(ttl.title)]
    /\ TitleFrame

\* The normalizer applied to each variation it returned.
TitleGenerateAgain ==
    /\ ttl.at = "generated"
    /\ ttl' = [ttl EXCEPT !.at = "again",
                          !.again = [i \in 1..Len(ttl.variations) |->
                                        generateTitleVariations(ttl.variations[i])]]
    /\ TitleFrame

TitleNext == TitleGenerate \/ TitleGenerateAgain

SpecTitle == TitleInit /\ [][TitleNext]_vars

---------------------------------------------------------------------------
(* Specification SpecLogin: login requests for one account, interleaved at
   the awaits of the handler (User.findOne, user.comparePassword, user.save).
   The time is counted in minutes. *)

MaxLogins == 6

MaxClock == 45

MaxFailedAttempts == 5

LockMinutes == 30

Clients == {1, 2}

Emails == {"known", "unknown"}

Passwords == {"right", "wrong"}

LoginInit ==
    /\ auth = NoAuth
    /\ ScoreIdle
    /\ FactIdle
    /\ PipeIdle
    /\ MergeIdle
    /\ BatchIdle
    /\ RaceIdle
    /\ TitleIdle /\ BanIdle /\ WatchIdle /\ SearchIdle

LoginFrame == UNCHANGED <<scoreVars, factVars, pipeVars, mergeVars, batchVars, raceVars, ttl, ban, watch, search>>

\* Date.now() moves on.
ClockTick ==
    /\ auth.now + LockMinutes \div 2 <= MaxClock
    /\ auth' = [auth EXCEPT !.now = @ + LockMinutes \div 2]
    /\ LoginFrame

\* The lock is stored on the wrong side of the clock.
isLockedInverted(user, now) == user.lockUntil # NULL /\ user.lockUntil < now

\* const isLocked = user.lockUntil && user.lockUntil > Date.now()
isLocked(user, now) == user.lockUntil # NULL /\ user.lockUntil > now

\* res.status(status).json(...): the handler returns and its document is dropped.
Respond(i, status) == [auth.requests[i] EXCEPT !.at = "done", !.status = status, !.user = NoUser]

\* login up to `await User.findOne`: the validation errors are answered 400.
LoginBegin(i) ==
    /\ auth.requests[i].at \in {"idle", "done"}
    /\ auth.started < MaxLogins
    /\ \E email \in Emails, password \in Passwords, valid \in BOOLEAN :
          LET request == [NoRequest EXCEPT !.email = email, !.password = password]
          IN  auth' = [auth EXCEPT
                          !.started = @ + 1,
                          !.requests[i] =
                              IF valid THEN [request EXCEPT !.at = "finding"]
                              ELSE [request EXCEPT !.at = "done", !.status = 400]]
    /\ LoginFrame

\* User.findOne resolves: 401 for no user, 423 for a locked one, and the
\* password comparison is started otherwise.
LoginFound(i) ==
    /\ auth.requests[i].at = "finding"
    /\ auth' = [auth EXCEPT !.requests[i] =
                    IF auth.requests[i].email # "known" THEN Respond(i, 401)
                    ELSE IF isLocked(auth.user, auth.now)
                         THEN Respond(i, 423)
                         ELSE [auth.requests[i] EXCEPT !.at = "comparing", !.user = auth.user]]
    /\ LoginFrame

\* The document after a failed comparison: user.failedLoginAttempts += 1 and
\* the lock after MaxFailedAttempts attempts.
FailedAttempt(user, now) ==
    LET attempts == user.failedLoginAttempts + 1
    IN  [user EXCEPT !.failedLoginAttempts = attempts,
                     !.lockUntil = IF attempts >= MaxFailedAttempts
                                   THEN now + LockMinutes ELSE @]

\* The document after a successful comparison.
SuccessfulLogin(user, now) ==
    [user EXCEPT !.failedLoginAttempts = 0, !.lockUntil = NULL, !.lastLogin = now]

\* user.comparePassword resolves; the document is changed and user.save() is
\* called.  failed counts the failed comparisons since the last successful
\* one that were made before a lock was stored.
LoginCompared(i) ==
    /\ auth.requests[i].at = "comparing"
    /\ LET request == auth.requests[i]
           isPasswordValid == request.password = "right"
       IN  auth' = [auth EXCEPT
                       !.requests[i] =
                           [request EXCEPT
                               !.at = "saving",
                               !.compared = TRUE,
                               !.user = IF isPasswordValid
                                        THEN SuccessfulLogin(request.user, auth.now)
                                        ELSE FailedAttempt(request.user, auth.now)],
                       !.failed = IF isPasswordValid THEN 0
                                  ELSE IF auth.locked THEN @ ELSE @ + 1,
                       !.locked = IF isPasswordValid THEN FALSE ELSE @]
    /\ LoginFrame

\* await user.save(): the document of the request replaces the stored one in
\* the paths the request changed (failedLoginAttempts, lockUntil, lastLogin:
\* all the paths of the model), and the response is sent.
LoginSaved(i) ==
    /\ auth.requests[i].at = "saving"
    /\ LET request == auth.requests[i]
       IN  auth' = [auth EXCEPT
                       !.user = request.user,
                       !.locked = @ \/ request.user.lockUntil # NULL,
                       !.requests[i] =
                           Respond(i, IF request.password = "right" THEN 200 ELSE 401)]
    /\ LoginFrame

login(i) == LoginBegin(i) \/ LoginFound(i) \/ LoginCompared(i) \/ LoginSaved(i)

LoginNext == ClockTick \/ \E i \in Clients : login(i)

SpecLogin == LoginInit /\ [][LoginNext]_vars

---------------------------------------------------------------------------
(* Specification SpecBan: one request passing the IP ban middleware (the
   wrapper of the application around checkIPBan).  Whether the address has an
   active ban, and whether the lookup and the update of the ban succeed, are
   drawn with the request. *)

\* The address after the clean-up: a local or private one, or a public one.
Addresses == {"127.0.0.1", "192.168.0.7", "203.0.113.9"}

Hostnames == {"localhost", "example.org"}

Environments == {"development", "production"}

Outcomes == {"resolves", "throws"}

BanInit ==
    /\ \E ip \in Addresses, hostname \in Hostnames, env \in Environments :
       \E banned \in BOOLEAN, lookup \in Outcomes, save \in Outcomes :
          ban = [NoBan EXCEPT !.at = "start", !.ip = ip, !.hostname = hostname,
                              !.env = env, !.banned = banned, !.lookup = lookup,
                              !.save = save]
    /\ ScoreIdle
    /\ FactIdle
    /\ PipeIdle
    /\ MergeIdle
    /\ BatchIdle
    /\ RaceIdle
    /\ TitleIdle /\ AuthIdle /\ WatchIdle /\ SearchIdle

BanFrame == UNCHANGED <<scoreVars, factVars, pipeVars, mergeVars, batchVars, raceVars, ttl, auth, watch, search>>

\* The `if` that skips the check for localhost / development.
Exempt(request) ==
    \/ request.ip = "127.0.0.1"
    \/ SubSeq(request.ip, 1, 4) = "127."
    \/ SubSeq(request.ip, 1, 8) = "192.168."
    \/ SubSeq(request.ip, 1, 3) = "10."
    \/ request.hostname = "localhost"
    \/ request.env = "development"

\* next()
CallNext(request) == [request EXCEPT !.at = "done", !.next = @ + 1]

\* The catch block of checkIPBan: next() in development, and next() in
\* production as well.
Caught(request) == CallNext(request)

\* checkIPBan up to `await IPBan.isIPBanned(ip)`.
BanCheckBegin ==
    /\ ban.at = "start"
    /\ ban' = IF Exempt(ban) THEN CallNext(ban) ELSE [ban EXCEPT !.at = "lookup"]
    /\ BanFrame

\* IPBan.isIPBanned resolves: without a ban next() is called, with one the
\* ban is touched and saved.
BanLookupResolved ==
    /\ ban.at = "lookup"
    /\ ban.lookup = "resolves"
    /\ ban' = IF ban.banned THEN [ban EXCEPT !.at = "save", !.looked = TRUE]
              ELSE [CallNext(ban) EXCEPT !.looked = TRUE]
    /\ BanFrame

\* IPBan.isIPBanned rejects.
BanLookupThrown ==
    /\ ban.at = "lookup"
    /\ ban.lookup = "throws"
    /\ ban' = Caught(ban)
    /\ BanFrame

\* ban.save() resolves: 403.
BanSaveResolved ==
    /\ ban.at = "save"
    /\ ban.save = "resolves"
    /\ ban' = [ban EXCEPT !.at = "done", !.status = 403]
    /\ BanFrame

\* ban.save() rejects.
BanSaveThrown ==
    /\ ban.at = "save"
    /\ ban.save = "throws"
    /\ ban' = Caught(ban)
    /\ BanFrame

checkIPBan ==
    BanCheckBegin \/ BanLookupResolved \/ BanLookupThrown \/ BanSaveResolved \/ BanSaveThrown

SpecBan == BanInit /\ [][checkIPBan]_vars

---------------------------------------------------------------------------
(* Specification SpecWatch: the watchlist requests of one user, one after the
   other.  An ObjectId is written with two hexadecimal digits instead of 24. *)

MaxWatchRequests == 2

\* ObjectId.prototype.toString of the id a string is cast to: lower-case hex.
ObjectIdOf(str) == toLowerCase(str)

HexDigits == Digits \cup {"a", "b", "c", "d", "e", "f"}

\* isMongoId(): hexadecimal digits of either case.
isMongoId(str) == \A k \in 1..Len(str) : LowerChar(str[k]) \in HexDigits

\* The Content collection as the watchlist handlers read it.
WatchContents ==
    {[id |-> <<"a", "1">>, contentType |-> "tv", episodeCount |-> 12, malEpisodes |-> NULL, seasonCount |-> 2],
     [id |-> <<"b", "2">>, contentType |-> "movie", episodeCount |-> NULL, malEpisodes |-> NULL, seasonCount |-> NULL]}

\* contentId of the request body or of the route.
ContentIds == {<<"a", "1">>, <<"A", "1">>, <<"b", "2">>, <<"c", "3">>, <<"z", "z">>}

WatchInputs ==
    [contentId : ContentIds, status : {"", "watching"}, rating : {NULL, 8},
     currentEpisode : {NULL, 5}, currentSeason : {NULL, 2}, userFound : BOOLEAN]

WatchInit ==
    /\ watch = NoWatch
    /\ ScoreIdle
    /\ FactIdle
    /\ PipeIdle
    /\ MergeIdle
    /\ BatchIdle
    /\ RaceIdle
    /\ TitleIdle /\ AuthIdle /\ BanIdle /\ SearchIdle

WatchFrame == UNCHANGED <<scoreVars, factVars, pipeVars, mergeVars, batchVars, raceVars, ttl, auth, ban, search>>

\* Content.findById(contentId): the set of the documents found (one or none).
ContentById(contentId) == {c \in WatchContents : c.id = ObjectIdOf(contentId)}

\* a || b of two numbers
OrElse(a, b) == IF Truthy(a) THEN a ELSE b

maxEpisodes(content) ==
    OrElse(OrElse(content.episodeCount, content.malEpisodes),
           IF content.contentType = "movie" THEN 1 ELSE 0)

maxSeasons(content) == OrElse(content.seasonCount, 1)

\* user.watchlist.find((item) => item.content.toString() === contentId):
\* the index of the first such item, or 0.
FindItem(watchlist, contentId) ==
    IF \E k \in 1..Len(watchlist) : watchlist[k].content = contentId
    THEN CHOOSE k \in 1..Len(watchlist) :
            /\ watchlist[k].content = contentId
            /\ \A j \in 1..(k - 1) : watchlist[j].content # contentId
    ELSE 0

\* The response of a watchlist request and the watchlist it leaves.
WatchDone(fn, input, code, watchlist) ==
    /\ watch' = [watchlist |-> watchlist,
                 last |-> [fn |-> fn, contentId |-> input.contentId, code |-> code,
                           before |-> watch.watchlist],
                 requests |-> watch.requests + 1]
    /\ WatchFrame

\* The item of a request for content that is not yet in the watchlist.
NewItem(input, content) ==
    [content |-> ObjectIdOf(input.contentId),
     status |-> IF input.status # "" THEN input.status ELSE "plan_to_watch",
     rating |-> input.rating,
     currentEpisode |-> OrElse(input.currentEpisode, 0),
     currentSeason |-> OrElse(input.currentSeason, 1),
     totalEpisodes |-> maxEpisodes(content),
     totalSeasons |-> maxSeasons(content)]

\* The existing item after addToWatchlist.
UpdatedItem(item, input, content) ==
    [item EXCEPT
        !.status = IF input.status # "" THEN input.status ELSE @,
        !.rating = IF input.rating # NULL THEN input.rating ELSE @,
        !.currentEpisode = IF input.currentEpisode # NULL THEN input.currentEpisode ELSE @,
        !.currentSeason = IF input.currentSeason # NULL THEN input.currentSeason ELSE @,
        !.totalEpisodes = maxEpisodes(content),
        !.totalSeasons = maxSeasons(content)]

\* The item after updateWatchlistItem.
ChangedItem(item, input, content) ==
    [item EXCEPT
        !.status = IF input.status # "" THEN input.status ELSE @,
        !.rating = IF input.rating # NULL THEN input.rating ELSE @,
        !.currentEpisode = IF input.currentEpisode # NULL THEN input.currentEpisode ELSE @,
        !.currentSeason = IF input.currentSeason # NULL THEN input.currentSeason ELSE @,
        !.totalEpisodes = IF Truthy(@) THEN @ ELSE maxEpisodes(content),
        !.totalSeasons = IF Truthy(@) THEN @ ELSE maxSeasons(content)]

\* The two checks of currentEpisode and currentSeason against the content.
AboveMaximum(input, content) ==
    \/ input.currentEpisode # NULL /\ input.currentEpisode > maxEpisodes(content)
    \/ input.currentSeason # NULL /\ input.currentSeason > maxSeasons(content)

addToWatchlist ==
    /\ watch.requests < MaxWatchRequests
    /\ \E input \in WatchInputs :
          LET found == ContentById(input.contentId)
              content == CHOOSE c \in found : TRUE
              existingItem == FindItem(watch.watchlist, input.contentId)
          IN  IF ~isMongoId(input.contentId)
              THEN WatchDone("add", input, 400, watch.watchlist)
              ELSE IF ~input.userFound \/ found = {}
              THEN WatchDone("add", input, 404, watch.watchlist)
              ELSE IF AboveMaximum(input, content)
              THEN WatchDone("add", input, 400, watch.watchlist)
              ELSE IF existingItem # 0
              THEN WatchDone("add", input, 200,
                             [watch.watchlist EXCEPT
                                 ![existingItem] = UpdatedItem(@, input, content)])
              ELSE WatchDone("add", input, 200,
                             Append(watch.watchlist, NewItem(input, content)))

removeFromWatchlist ==
    /\ watch.requests < MaxWatchRequests
    /\ \E input \in WatchInputs :
          IF ~input.userFound
          THEN WatchDone("remove", input, 404, watch.watchlist)
          ELSE WatchDone("remove", input, 200,
                         SelectSeq(watch.watchlist,
                                   LAMBDA item : item.content # input.contentId))

updateWatchlistItem ==
    /\ watch.requests < MaxWatchRequests
    /\ \E input \in WatchInputs :
          LET found == ContentById(input.contentId)
              content == CHOOSE c \in found : TRUE
              watchlistItem == FindItem(watch.watchlist, input.contentId)
          IN  IF ~input.userFound \/ watchlistItem = 0 \/ found = {}
              THEN WatchDone("update", input, 404, watch.watchlist)
              ELSE IF AboveMaximum(input, content)
              THEN WatchDone("update", input, 400, watch.watchlist)
              ELSE WatchDone("update", input, 200,
                             [watch.watchlist EXCEPT
                                 ![watchlistItem] = ChangedItem(@, input, content)])

WatchNext == addToWatchlist \/ removeFromWatchlist \/ updateWatchlistItem

SpecWatch == WatchInit /\ [][WatchNext]_vars

---------------------------------------------------------------------------
(* searchContent (contentController): GET /search?query=&type=&limit=&page=.
   The numbers of the query string are modelled by their values (parseInt of
   a string of decimal digits; the arithmetic of line 172 converts alike). *)

MaxLimit == 2

MaxPage == 3

sKo == <<"k", "o">>

\* Documents of the Content collection; popularity and unifiedScore order them.
SearchCatalogue ==
    {[internalId |-> <<"k", "1">>, tmdbId |-> 1, malId |-> NULL, title |-> <<"K", "o", "e">>,
      overview |-> <<>>, contentType |-> "movie", popularity |-> 50, unifiedScore |-> 80],
     [internalId |-> <<"k", "2">>, tmdbId |-> 2, malId |-> 12, title |-> <<"K", "o", "e", "2">>,
      overview |-> <<>>, contentType |-> "tv", popularity |-> 40, unifiedScore |-> 70],
     [internalId |-> <<"k", "3">>, tmdbId |-> NULL, malId |-> 13, title |-> <<"U", "p">>,
      overview |-> <<"a", " ", "K", "O">>, contentType |-> "tv", popularity |-> 40, unifiedScore |-> 60],
     [internalId |-> <<"k", "4">>, tmdbId |-> 4, malId |-> NULL, title |-> <<"o", "k", "o">>,
      overview |-> <<>>, contentType |-> "movie", popularity |-> 30, unifiedScore |-> 90],
     [internalId |-> <<"u", "5">>, tmdbId |-> 5, malId |-> NULL, title |-> <<"U", "p">>,
      overview |-> <<>>, contentType |-> "movie", popularity |-> 60, unifiedScore |-> 90]}

\* Results of the external providers: the first is the stored movie "Koe" again.
ExternalCatalogue ==
    {[internalId |-> <<>>, tmdbId |-> 1, malId |-> NULL, title |-> <<"K", "o", "e">>,
      overview |-> <<>>, contentType |-> "movie", popularity |-> 50, unifiedScore |-> NULL],
     [internalId |-> <<>>, tmdbId |-> 9, malId |-> NULL, title |-> <<"k", "o", "e">>,
      overview |-> <<>>, contentType |-> "movie", popularity |-> 20, unifiedScore |-> NULL],
     [internalId |-> <<>>, tmdbId |-> NULL, malId |-> 19, title |-> <<"K", "o", "d", "a">>,
      overview |-> <<>>, contentType |-> "tv", popularity |-> 10, unifiedScore |-> NULL]}

Queries == {<<>>, sKo}

Types == {"", "all", "movie", "tv"}

SearchInit ==
    /\ \E stored \in SUBSET SearchCatalogue : search = [NoSearch EXCEPT !.stored = stored]
    /\ ScoreIdle
    /\ FactIdle
    /\ PipeIdle
    /\ MergeIdle
    /\ BatchIdle
    /\ RaceIdle
    /\ TitleIdle /\ AuthIdle /\ BanIdle /\ WatchIdle

SearchFrame == UNCHANGED <<scoreVars, factVars, pipeVars, mergeVars, batchVars, raceVars, ttl, auth, ban, watch>>

\* The filter of Content.find: the pattern in title or overview, whatever the
\* case, and the content type when one other than 'all' is asked for.
Matches(doc, query, type) ==
    /\ ContainsIgnoreCase(doc.title, query) \/ ContainsIgnoreCase(doc.overview, query)
    /\ (type # "" /\ type # "all") => doc.contentType = type

\* sort({ popularity: -1, unifiedScore: -1 })
SortsBefore(a, b) ==
    \/ a.popularity > b.popularity
    \/ a.popularity = b.popularity /\ a.unifiedScore > b.unifiedScore

RECURSIVE Sorted(_)
Sorted(docs) ==
    IF docs = {} THEN <<>>
    ELSE LET first == CHOOSE d \in docs : \A o \in docs \ {d} : SortsBefore(d, o)
         IN  <<first>> \o Sorted(docs \ {first})

\* arr.slice(from, to), from and to counted from 0.
Slice(arr, from, to) == SubSeq(arr, from + 1, IF to < Len(arr) THEN to ELSE Len(arr))

\* find(filter).sort(...).skip(skip).limit(limit)
FindSorted(stored, query, type, skip, limit) ==
    Slice(Sorted({d \in stored : Matches(d, query, type)}), skip, skip + limit)

\* The identifiers of a result that is compared for deduplication (the code
\* builds one string for each; a pair keeps the kinds apart as the prefixes do).
Keys(result) ==
    (IF result.internalId # <<>> THEN {<<"internalId", result.internalId>>} ELSE {})
    \cup (IF Truthy(result.tmdbId) THEN {<<"tmdb", result.tmdbId>>} ELSE {})
    \cup (IF Truthy(result.malId) THEN {<<"mal", result.malId>>} ELSE {})
    \cup {<<"title", toLowerCase(result.title), result.contentType>>}

\* The loop of lines 205-219: a result is kept when none of its keys was seen.
RECURSIVE UniqueResults(_, _)
UniqueResults(allResults, seen) ==
    IF allResults = <<>> THEN <<>>
    ELSE IF Keys(Head(allResults)) \cap seen # {}
    THEN UniqueResults(Tail(allResults), seen)
    ELSE <<Head(allResults)>> \o UniqueResults(Tail(allResults), seen \cup Keys(Head(allResults)))

\* The body of the 200 response.
SearchResponse(dbResults, externalResults, limit, page) ==
    LET skip == (page - 1) * limit
        uniqueResults == UniqueResults(dbResults \o externalResults, {})
        total == Len(uniqueResults)
        totalPages == Ceil(total, limit)
    IN  [content |-> Slice(uniqueResults, skip, skip + limit),
         pagination |-> [currentPage |-> page, totalPages |-> totalPages, totalItems |-> total,
                         itemsPerPage |-> limit, hasNextPage |-> page < totalPages,
                         hasPrevPage |-> page > 1]]

SearchResponded(externalResults, logged) ==
    LET response == SearchResponse(search.dbResults, externalResults, search.limit, search.page)
    IN  search' = [search EXCEPT !.at = "done", !.externalResults = externalResults,
                                 !.logged = logged, !.status = 200, !.content = response.content,
                                 !.pagination = response.pagination]

\* A request without a query is answered 400.
SearchRejected ==
    /\ search.at \in {"idle", "done"}
    /\ search' = [NoSearch EXCEPT !.stored = search.stored, !.at = "done", !.status = 400]
    /\ SearchFrame

\* The database search of lines 172-185.
SearchDatabase ==
    /\ search.at \in {"idle", "done"}
    /\ \E query \in Queries \ {<<>>}, type \in Types, limit \in 1..MaxLimit, page \in 1..MaxPage :
          search' = [NoSearch EXCEPT !.stored = search.stored, !.at = "db", !.query = query,
                                     !.type = type, !.limit = limit, !.page = page,
                                     !.dbResults = FindSorted(search.stored, query, type,
                                                              (page - 1) * limit, limit)]
    /\ SearchFrame

\* Enough results in the database: no external search.
SearchDatabaseOnly ==
    /\ search.at = "db"
    /\ ~(Len(search.dbResults) < search.limit)
    /\ SearchResponded(<<>>, "")
    /\ SearchFrame

\* The external search returns at most the number of results asked for,
\* none of them of another type than the one asked for.
SearchExternalResolved ==
    /\ search.at = "db"
    /\ Len(search.dbResults) < search.limit
    /\ \E found \in SUBSET {e \in ExternalCatalogue : Matches(e, search.query, search.type)} :
          /\ Cardinality(found) <= search.limit - Len(search.dbResults)
          /\ SearchResponded(Sorted(found), "")
    /\ SearchFrame

\* The external search throws: the error is logged and the list stays empty.
SearchExternalThrown ==
    /\ search.at = "db"
    /\ Len(search.dbResults) < search.limit
    /\ SearchResponded(<<>>, "External search error:")
    /\ SearchFrame

searchContent ==
    \/ SearchRejected
    \/ SearchDatabase
    \/ SearchDatabaseOnly
    \/ SearchExternalResolved
    \/ SearchExternalThrown

SpecSearch == SearchInit /\ [][searchContent]_vars

---------------------------------------------------------------------------
(* Claims about the fact checker, checked under SpecFact *)

\* A record has a datum when the field holds a usable (non-null, non-zero) value;
\* its episode count is episodeCount, or malEpisodes when it has no episodeCount.
HasDate(r) == r.releaseDate # NULL
HasGenres(r) == Len(r.genres) > 0
EpisodeCountOf(r) == IF r.episodeCount \notin {NULL, 0} THEN r.episodeCount ELSE r.malEpisodes
HasEpisodes(r) == EpisodeCountOf(r) \notin {NULL, 0}
HasRuntime(r) == r.runtime \notin {NULL, 0}

ShareGenre(a, b) ==
    \E i \in 1..Len(a.genres) : \E j \in 1..Len(b.genres) :
        toLowerCase(a.genres[i].name) = toLowerCase(b.genres[j].name)

\* What the fact checker is claimed to decide for new record n and stored record e.
ClaimedSame(n, e) ==
    LET d == Abs(n.releaseDate - e.releaseDate)
    IN  /\ n.contentType = e.contentType
        /\ (HasDate(n) /\ HasDate(e)) =>
              (IF n.contentType = "movie" THEN d <= 2 ELSE d <= 3)
        /\ (HasGenres(n) /\ HasGenres(e)) => ShareGenre(n, e)
        /\ (n.contentType = "tv" /\ HasEpisodes(n) /\ HasEpisodes(e)) =>
              Abs(EpisodeCountOf(n) - EpisodeCountOf(e)) <= 10
        /\ (n.contentType = "movie" /\ HasRuntime(n) /\ HasRuntime(e)) =>
              Abs(n.runtime - e.runtime) <= 45

\* C4: isLikelySameContent returns true iff the content types are equal; the
\* release years, when both are present, differ by at most 2 (movie) or 3
\* (series); the genres, when both have some, share a name ignoring case; for a
\* series the episode counts, when both are present, differ by at most 10; for a
\* movie the runtimes, when both are present, differ by at most 45.
C4_FactCheckIff ==
    fcRes.checked => ((fcRes.reason = "match") <=> ClaimedSame(fcNew, fcOld))

\* A movie pair at every boundary: years 2 apart, one genre shared only when
\* case is ignored, runtimes exactly 45 apart; accepted.
C4_Witness ==
    /\ fcRes.checked /\ fcRes.reason = "match"
    /\ fcNew.contentType = "movie" /\ fcOld.contentType = "movie"
    /\ fcNew.releaseDate = 2012 /\ fcOld.releaseDate = 2010
    /\ fcNew.genres = <<GAction>> /\ fcOld.genres = <<GActionLower, GDramaNoId>>
    /\ fcNew.runtime = 90 /\ fcOld.runtime = 135

\* C5: missing data never rejects: once a pair is accepted, removing the
\* release date, the genres, the episode count or the runtime from either record
\* leaves it accepted.
C5_MissingDataPermissive ==
    (fcPrev.checked /\ fcPrev.reason = "match") => fcRes.reason = "match"

\* An accepted pair with both release dates lost the stored record's date and
\* is still accepted.
C5_Witness ==
    /\ fcPrev.checked /\ fcPrev.reason = "match"
    /\ fcRemoved = <<"existing", "releaseDate">>
    /\ fcNew.releaseDate # NULL /\ fcOld.releaseDate = NULL
    /\ fcRes.reason = "match"

---------------------------------------------------------------------------
(* Claims about the score unifier, checked under SpecScore *)

\* How many of the three sources are present (carry a usable score).
SourcesPresent(a) ==
    (IF Truthy(a.ts) THEN 1 ELSE 0) + (IF Truthy(a.ms) THEN 1 ELSE 0)
        + (IF Truthy(a.ua) THEN 1 ELSE 0)

\* C6: with at least two sources present the TMDB score is included iff its
\* vote count is > 10 and the MAL score iff its count is > 100; a sole provider
\* is included iff its vote count is > 0; the user average is included iff its
\* rating count is >= 5; a source without a score is never included.
C6_InclusionThresholds ==
    scRes.called =>
        LET a == scArgs
            r == scRes.run
            many == SourcesPresent(a) >= 2
        IN  /\ r.tmdb <=> (Truthy(a.ts) /\ (IF many THEN a.tv > 10 ELSE a.tv > 0))
            /\ r.mal <=> (Truthy(a.ms) /\ (IF many THEN a.mv > 100 ELSE a.mv > 0))
            /\ r.user <=> (Truthy(a.ua) /\ a.uc >= 5)
            /\ Len(r.scores) = (IF r.tmdb THEN 1 ELSE 0) + (IF r.mal THEN 1 ELSE 0)
                                   + (IF r.user THEN 1 ELSE 0)

\* Three sources at the boundaries: 11 TMDB votes in, 100 MAL votes out, 5 ratings in.
C6_Witness ==
    /\ scRes.called
    /\ Truthy(scArgs.ts) /\ Truthy(scArgs.ms) /\ Truthy(scArgs.ua)
    /\ scArgs.tv = 11 /\ scArgs.mv = 100 /\ scArgs.uc = 5
    /\ scRes.run.tmdb /\ ~scRes.run.mal /\ scRes.run.user

\* The result the claim describes, computed from the sources it says are included.
ExpectedScore(a) ==
    LET many == SourcesPresent(a) >= 2
        inT == Truthy(a.ts) /\ (IF many THEN a.tv > 10 ELSE a.tv > 0)
        inM == Truthy(a.ms) /\ (IF many THEN a.mv > 100 ELSE a.mv > 0)
        inU == Truthy(a.ua) /\ a.uc >= 5
        wT == IF inT THEN 5 * Log10(Max(a.tv, 1)) ELSE 0
        wM == IF inM THEN 5 * Log10(Max(a.mv, 1)) ELSE 0
        wU == IF inU THEN 4 * Log10(Max(a.uc, 1)) ELSE 0
        n == (IF inT THEN 1 ELSE 0) + (IF inM THEN 1 ELSE 0) + (IF inU THEN 1 ELSE 0)
        plain == (IF inT THEN a.ts ELSE 0) + (IF inM THEN a.ms ELSE 0)
                    + (IF inU THEN a.ua ELSE 0)
        weighted == (IF inT THEN a.ts * wT ELSE 0) + (IF inM THEN a.ms * wM ELSE 0)
                    + (IF inU THEN a.ua * wU ELSE 0)
    IN  IF n = 0 THEN NullScore
        ELSE IF wT + wM + wU = 0 THEN Rat(plain, n)
        ELSE Rat(weighted, wT + wM + wU)

\* C7: the unifier returns null exactly when no source passes its threshold;
\* otherwise the mean of the included scores weighted by log10(max(votes, 1))
\* (user weight times 0.8), and the plain mean when the total weight is 0.
C7_UnifierResult ==
    scRes.called =>
        /\ IsNull(scRes.run.result) <=> IsNull(ExpectedScore(scArgs))
        /\ RatEq(scRes.run.result, ExpectedScore(scArgs))
        /\ (scArgs.ts = NULL /\ scArgs.ms = NULL /\ scArgs.ua = NULL)
               => IsNull(scRes.run.result)
        /\ (scArgs.ts = 80 /\ scArgs.tv = 0 /\ scArgs.ms = NULL /\ scArgs.ua = NULL)
               => IsNull(scRes.run.result)

\* A sole provider with exactly one vote: total weight 0, the plain mean is returned.
C7_Witness ==
    /\ scRes.called
    /\ scArgs.ts = 80 /\ scArgs.tv = 1 /\ scArgs.ms = NULL /\ scArgs.ua = NULL
    /\ SumSeq(scRes.run.weights) = 0
    /\ RatEq(scRes.run.result, Rat(80, 1))

\* Was the source whose score was raised included in the call before the raise?
RaisedWasIncluded ==
    \/ scRaised = "tmdb" /\ scPrev.res.tmdb
    \/ scRaised = "mal" /\ scPrev.res.mal
    \/ scRaised = "user" /\ scPrev.res.user

\* C8: with all vote counts fixed, raising the score of an included source
\* never lowers the unified score.
C8_ScoreMonotone ==
    (scPrev.called /\ RaisedWasIncluded) =>
        /\ ~IsNull(scPrev.res.result)
        /\ ~IsNull(scRes.run.result)
        /\ RatLeq(scPrev.res.result, scRes.run.result)

\* The MAL score of a two-provider record went up and the result went up with it.
C8_Witness ==
    /\ scPrev.called /\ scRaised = "mal"
    /\ scPrev.res.mal /\ scPrev.res.tmdb
    /\ RatLt(scPrev.res.result, scRes.run.result)

---------------------------------------------------------------------------
(* Claims about the ingestion pipeline, checked under Spec *)

\* The last operation was an ingest that ran findDuplicateContent to its end.
Matched == last.kind \in {"created", "merged"}

\* The collection grew by exactly the new document, the rest untouched.
CreatedOne ==
    /\ Len(store) = Len(last.before) + 1
    /\ SubSeq(store, 1, Len(last.before)) = last.before

\* Exactly one stored document differs from before, none was added or removed.
MutatedOne ==
    /\ Len(store) = Len(last.before)
    /\ \E i \in 1..Len(store) :
          /\ store[i] # last.before[i]
          /\ \A j \in 1..Len(store) : j # i => store[j] = last.before[j]

\* C1 as stated: every ingest that completes without error either creates one
\* record (only when findDuplicateContent accepted no candidate) or mutates
\* exactly one existing record; the collection never shrinks and grows by at
\* most 1.
C1_Original ==
    last.kind \in {"created", "merged", "updated", "skipped"} =>
        \/ CreatedOne /\ last.duplicates = <<>>
        \/ MutatedOne

\* C1 amended: every ingest that completes without error creates one record
\* (only when findDuplicateContent accepted no candidate), or mutates exactly
\* one existing record, or - when the detail fetch or the conversion returned
\* nothing and the record is skipped - leaves the collection as it was; the
\* collection never shrinks and grows by at most 1 per ingest.
C1_IngestWrites ==
    /\ last.kind = "created" =>
          CreatedOne /\ last.duplicates = <<>>
    /\ last.kind \in {"merged", "updated"} =>
          MutatedOne /\ store[last.target] # last.before[last.target]
    /\ last.kind \in {"skipped", "error"} => store = last.before
    /\ last.kind # "none" =>
          Len(store) \in {Len(last.before), Len(last.before) + 1}

\* A TMDB record was merged into the one stored document, which changed.
C1_Witness ==
    /\ last.kind = "merged" /\ last.provider = "tmdb"
    /\ Len(store) = 1 /\ Len(last.before) = 1
    /\ store[1] # last.before[1]

\* Stored document i matches one of the title variations of contentData.
TitleFamily(docs, i, contentData) ==
    /\ docs[i].contentType = contentData.contentType
    /\ \E k \in 1..Len(generateTitleVariations(contentData.title)) :
          LET v == generateTitleVariations(contentData.title)[k]
          IN  \/ ContainsIgnoreCase(docs[i].title, v)
              \/ \E a \in 1..Len(docs[i].alternativeTitles) :
                     ContainsIgnoreCase(docs[i].alternativeTitles[a], v)

\* C2: findDuplicateContent returns an empty list exactly when no stored
\* record that matches a title variation (same content type) passes the fact
\* check; a matching record that passes makes the result non-empty even when
\* another matching record fails.
C2_EmptyIffNoMatch ==
    Matched =>
        ((last.duplicates = <<>>) <=>
            ~\E i \in 1..Len(last.before) :
                /\ TitleFamily(last.before, i, last.data)
                /\ ClaimedSame(last.data, last.before[i]))

\* C3: every returned candidate is a stored record of the input's content
\* type whose title or alternative titles contain a title variation of the
\* input ignoring case and which the fact checker accepted; no record is
\* returned twice.
C3_CandidatesSound ==
    Matched =>
        /\ \A k \in 1..Len(last.duplicates) :
              /\ last.duplicates[k] \in 1..Len(last.before)
              /\ TitleFamily(last.before, last.duplicates[k], last.data)
              /\ ClaimedSame(last.data, last.before[last.duplicates[k]])
        /\ \A k, m \in 1..Len(last.duplicates) :
              k # m => last.duplicates[k] # last.duplicates[m]

\* A candidate found through its alternative titles only, by two variations of
\* the input title, and returned once.
C3_Witness ==
    /\ last.kind = "merged"
    /\ Len(last.duplicates) = 1
    /\ Len(generateTitleVariations(last.data.title)) >= 2
    /\ ~ContainsIgnoreCase(last.before[last.duplicates[1]].title, last.data.title)

\* The arguments the unifier gets from a record's current fields.
ArgsOf(r) ==
    [ts |-> r.voteAverage, tv |-> r.voteCount, ms |-> r.malScore, mv |-> r.malScoredBy,
     ua |-> r.userRatingAverage, uc |-> r.userRatingCount]

RawOrZero(a, b) == IF Truthy(a) THEN Rat(a, 1) ELSE IF Truthy(b) THEN Rat(b, 1) ELSE Rat(0, 1)

---------------------------------------------------------------------------
(* Claims about the merge engine, checked under SpecMerge *)

\* The fields of a record that a merge writes, the timestamps aside.
MergedFields(r) ==
    [studios |-> r.studios, alternativeTitles |-> r.alternativeTitles,
     genres |-> r.genres, title |-> r.title, overview |-> r.overview,
     posterPath |-> r.posterPath, releaseDate |-> r.releaseDate,
     unifiedScore |-> r.unifiedScore,
     tmdbId |-> r.tmdbId, voteAverage |-> r.voteAverage, voteCount |-> r.voteCount,
     popularity |-> r.popularity,
     malId |-> r.malId, malScore |-> r.malScore, malScoredBy |-> r.malScoredBy,
     malRank |-> r.malRank, malStatus |-> r.malStatus, malEpisodes |-> r.malEpisodes,
     malSource |-> r.malSource, malRating |-> r.malRating,
     tmdbHasData |-> r.dataSources.tmdb.hasData,
     malHasData |-> r.dataSources.mal.hasData]

\* C10: merging the same source data into a record a second time (with
\* mergeTmdbIntoExisting or mergeMalIntoExisting) leaves studios,
\* alternativeTitles, genres, the provider fields, title, overview and
\* unifiedScore as the first merge left them; only the timestamps move.
C10_MergeIdempotent ==
    merge.count >= 2 => MergedFields(merge.rec) = MergedFields(merge.once)

\* A second MAL merge after a first one that replaced the title and added a
\* studio and a genre to the record.
C10_Witness ==
    /\ merge.count = 2 /\ merge.provider = "mal"
    /\ merge.once.title # merge.before.title
    /\ Len(merge.once.studios) > Len(merge.before.studios)
    /\ Len(merge.once.genres) > Len(merge.before.genres)
    /\ merge.rec.lastUpdated # merge.once.lastUpdated

\* Two genre entries denote the same genre: the same id, or the same name
\* ignoring case.
SameGenre(a, b) ==
    \/ Truthy(a.id) /\ Truthy(b.id) /\ a.id = b.id
    \/ toLowerCase(a.name) = toLowerCase(b.name)

\* C11: after any merge the record's genres contain no two entries that denote
\* the same genre (same id, or same name ignoring case); an entry with an id
\* and an entry with only the same name in lower case merge into one.
C11_GenresDistinct ==
    merge.count >= 1 =>
        \A i, j \in 1..Len(merge.rec.genres) :
            i # j => ~SameGenre(merge.rec.genres[i], merge.rec.genres[j])

\* C12: after any merge the record's alternativeTitles contain no two entries
\* that are equal ignoring case.
C12_AlternativeTitlesDistinct ==
    merge.count >= 1 =>
        \A i, j \in 1..Len(merge.rec.alternativeTitles) :
            i # j => toLowerCase(merge.rec.alternativeTitles[i])
                         # toLowerCase(merge.rec.alternativeTitles[j])

\* The record as it was before the last merge (for the first two merges).
BeforeLastMerge == IF merge.count = 1 THEN merge.before ELSE merge.once

\* The incoming data is from the higher-trust provider for the content: MAL
\* data that isAnimeContent flags as anime.
HigherTrust == merge.provider = "mal" /\ isAnimeContent(merge.data)

\* C13: a merge overwrites posterPath or releaseDate only when the existing
\* value is absent, and title or overview only when the existing value is
\* absent or shorter than the incoming one, and any of them only when the
\* incoming data is MAL data flagged as anime; a TMDB merge and a non-anime MAL
\* merge leave the four fields unchanged.
C13_FillGapsPreferRicher ==
    merge.count \in {1, 2} =>
        LET pre == BeforeLastMerge
            post == merge.rec
            data == merge.data
        IN  /\ post.posterPath # pre.posterPath =>
                  HigherTrust /\ pre.posterPath = "" /\ post.posterPath = data.posterPath
            /\ post.releaseDate # pre.releaseDate =>
                  HigherTrust /\ pre.releaseDate = NULL
                              /\ post.releaseDate = data.releaseDate
            /\ post.title # pre.title =>
                  /\ HigherTrust
                  /\ pre.title = <<>> \/ Len(pre.title) < Len(data.title)
                  /\ post.title = data.title
            /\ post.overview # pre.overview =>
                  /\ HigherTrust
                  /\ pre.overview = <<>> \/ Len(pre.overview) < Len(data.overview)
                  /\ post.overview = data.overview
            /\ ~HigherTrust =>
                  /\ post.title = pre.title /\ post.overview = pre.overview
                  /\ post.posterPath = pre.posterPath
                  /\ post.releaseDate = pre.releaseDate

\* An anime MAL merge that replaced the shorter title and overview and kept the
\* poster the record already had, although the MAL data carries another one.
C13_Witness ==
    /\ merge.count = 1 /\ HigherTrust
    /\ merge.rec.title = merge.data.title /\ merge.before.title # merge.data.title
    /\ merge.rec.overview = merge.data.overview
    /\ merge.before.overview # <<>> /\ merge.before.overview # merge.data.overview
    /\ merge.before.posterPath # "" /\ merge.data.posterPath # ""
    /\ merge.rec.posterPath = merge.before.posterPath
    /\ merge.rec.posterPath # merge.data.posterPath

\* The fields only a TMDB merge writes, and the fields only a MAL merge writes.
TmdbFields(r) ==
    [tmdbId |-> r.tmdbId, voteAverage |-> r.voteAverage, voteCount |-> r.voteCount,
     popularity |-> r.popularity]

MalFields(r) ==
    [malId |-> r.malId, malScore |-> r.malScore, malScoredBy |-> r.malScoredBy,
     malRank |-> r.malRank, malStatus |-> r.malStatus, malEpisodes |-> r.malEpisodes,
     malSource |-> r.malSource, malRating |-> r.malRating]

\* C14: after mergeMalIntoExisting the record's mal* fields equal the incoming
\* values and tmdbId, voteAverage, voteCount, popularity are unchanged; after
\* mergeTmdbIntoExisting the latter equal the incoming values and every mal*
\* field is unchanged.
C14_ProviderFieldsOverwritten ==
    merge.count \in {1, 2} =>
        /\ merge.provider = "mal" =>
              /\ MalFields(merge.rec) = MalFields(merge.data)
              /\ TmdbFields(merge.rec) = TmdbFields(BeforeLastMerge)
        /\ merge.provider = "tmdb" =>
              /\ TmdbFields(merge.rec) = TmdbFields(merge.data)
              /\ MalFields(merge.rec) = MalFields(BeforeLastMerge)

\* A MAL merge into a record that holds both providers' fields, whose MAL
\* score is replaced by the incoming data's absent score.
C14_Witness ==
    /\ merge.count = 1 /\ merge.provider = "mal"
    /\ merge.before.tmdbId # NULL /\ merge.before.malId # NULL
    /\ merge.before.malId # merge.data.malId
    /\ merge.before.malScore # NULL /\ merge.data.malScore = NULL
    /\ merge.rec.malScore = NULL /\ merge.rec.tmdbId = merge.before.tmdbId

---------------------------------------------------------------------------
(* Claims about the stored records, checked under Spec *)

\* C15: a record's content type is fixed at creation: no ingest (creation,
\* title-match merge, or the malId-keyed update of saveMalContent) changes the
\* contentType of a record that is already stored.
C15_ContentTypeFixed ==
    \A i \in 1..Len(last.before) :
        i <= Len(store) => store[i].contentType = last.before[i].contentType

\* C16: external ids stay unique per provider: no two stored records carry the
\* same tmdbId and no two carry the same malId, a source record whose provider
\* id is already stored being folded into the record that holds it.
C16_ExternalIdsUnique ==
    \A i, j \in 1..Len(store) :
        i # j =>
            /\ store[i].tmdbId # NULL => store[i].tmdbId # store[j].tmdbId
            /\ store[i].malId # NULL => store[i].malId # store[j].malId

\* The store holds just the record created from the provider-A movie (score
\* 7.5, 5000 votes, 2016, Drama), not yet rated by users.
OnlyGhostStored(docs) ==
    /\ Len(docs) = 1
    /\ docs[1].tmdbId = TmdbGhost.tmdbId /\ docs[1].malId = NULL
    /\ docs[1].userRatingCount = 0

\* The matching provider-B movie (score 8.9, 800 scored-by, 2016, Drama) was
\* ingested next and the ingest did not throw.
ScenarioSecondIngest ==
    /\ last.provider = "mal" /\ last.kind # "error"
    /\ last.data = MalKoeNo
    /\ OnlyGhostStored(last.before)

\* Both ingests of the scenario up to the weighted score: one record with
\* unifiedScore 7.5, then one merged record with both providers' fields and a
\* unifiedScore strictly between 7.5 and 8.9.
ScenarioOutcome ==
    /\ (last.kind = "created" /\ last.data = TmdbGhost /\ last.before = <<>>) =>
          /\ Len(store) = 1
          /\ RatEq(store[1].unifiedScore, Rat(75, 1))
    /\ ScenarioSecondIngest =>
          /\ last.kind = "merged" /\ last.duplicates = <<1>>
          /\ Len(store) = 1
          /\ store[1].tmdbId = TmdbGhost.tmdbId /\ store[1].malId = MalKoeNo.malId
          /\ store[1].voteAverage = 75 /\ store[1].voteCount = 5000
          /\ store[1].malScore = 89 /\ store[1].malScoredBy = 800
          /\ ~IsNull(store[1].unifiedScore)
          /\ RatLt(Rat(75, 1), store[1].unifiedScore)
          /\ RatLt(store[1].unifiedScore, Rat(89, 1))

\* C17 as stated: the scenario ends with one merged record whose unifiedScore
\* lies strictly between 7.5 and 8.9 and is closer to 8.9 than to 7.5 (above
\* their midpoint 8.2).
C17_Original ==
    /\ ScenarioOutcome
    /\ ScenarioSecondIngest => RatLt(Rat(82, 1), store[1].unifiedScore)

\* C17 amended: the scenario ends with one merged record whose unifiedScore
\* lies strictly between 7.5 and 8.9 and is closer to 7.5 than to 8.9 (below
\* their midpoint 8.2), provider A having the larger vote count.
C17_ScenarioScore ==
    /\ ScenarioOutcome
    /\ ScenarioSecondIngest => RatLt(store[1].unifiedScore, Rat(82, 1))

\* The second ingest of the scenario has merged into the only record.
C17_Witness ==
    /\ ScenarioSecondIngest
    /\ last.kind = "merged"
    /\ store[1].malScore = 89 /\ store[1].voteAverage = 75

---------------------------------------------------------------------------
(* Claims about a run of the batch, checked under SpecBatch *)

\* The errors counter holds one count for each record whose save threw and
\* one for each failed fetch, and no more than limit records were processed.
ErrorsCounted ==
    /\ batch.errors = batch.thrown + batch.fetchErrors
    /\ batch.processed <= batch.limit
    /\ batch.thrown <= batch.processed
    /\ batch.at # "failed"

\* C18: an error thrown while one record is processed is caught and adds 1 to
\* the errors counter, the run goes on with the next record, and
\* populateTmdbContent and populateMalContent terminate after at most limit
\* records however many of them fail.
C18_ErrorsNonFatal == []ErrorsCounted /\ <>(batch.at = "done")

\* A run that ended after limit records, every one of which threw.
C18_Witness ==
    /\ batch.at = "done"
    /\ batch.limit = 2 /\ batch.processed = 2 /\ batch.thrown = 2
    /\ batch.errors >= 2

---------------------------------------------------------------------------
(* Claims about input-data errors, checked under Spec *)

\* The last ingest was handed a source record without a title.
IngestedUntitled ==
    /\ last.kind \in {"created", "merged", "updated", "skipped", "error"}
    /\ last.data # EmptyContent
    /\ last.data.title = <<>>

\* C19: a source record that lacks a required field (its title) is skipped:
\* it is counted in the skipped counter and not in the errors counter, and no
\* stored record is created or modified.
C19_InputErrorsAreSkips ==
    IngestedUntitled => last.kind = "skipped" /\ store = last.before

---------------------------------------------------------------------------
(* Claims about interleaved ingests, checked under SpecRace *)

\* Both calls ran findDuplicateContent to its end on the same collection, the
\* one from before either of them wrote.
MatchedSameStore ==
    /\ \A i \in Callers : race.calls[i].did \in {"created", "merged"}
    /\ race.calls[1].seen = race.calls[2].seen
    /\ Len(race.calls[1].seen) = Len(race.store) - Cardinality(
           {i \in Callers : race.calls[i].did = "created"})

\* Two calls that matched against the same pre-write collection and found no
\* candidate have both created a record.
BothCreate ==
    (MatchedSameStore /\ \A i \in Callers : race.calls[i].duplicates = <<>>) =>
        /\ Len(race.store) = Len(race.calls[1].seen) + 2
        /\ \A i \in Callers : race.calls[i].did = "created"

---------------------------------------------------------------------------
(* Claims about the title normalizer, checked under SpecTitle *)

Generated == ttl.at \in {"generated", "again"}

\* The variations other than the title itself and its lower-case, trimmed form.
IsCleanedVariant(i) ==
    /\ ttl.variations[i] # ttl.title
    /\ ttl.variations[i] # Trim(toLowerCase(ttl.title))

\* The variation that is `cleaned`, the outcome of the whole chain.
IsCleaned(i) ==
    /\ IsCleanedVariant(i)
    /\ ttl.variations[i] = Cleaned(Trim(toLowerCase(ttl.title)))

\* C21: generateTitleVariations(title) returns pairwise distinct strings, each
\* longer than 2 characters, at most 4 of them, and the first one is the
\* original title.
C21_VariationsContract ==
    Generated =>
        /\ \A i, j \in 1..Len(ttl.variations) :
               i # j => ttl.variations[i] # ttl.variations[j]
        /\ \A i \in 1..Len(ttl.variations) : Len(ttl.variations[i]) > 2
        /\ Len(ttl.variations) <= 4
        /\ Len(ttl.variations) >= 1
        /\ ttl.variations[1] = ttl.title

\* C22 as stated: the variations of a cleaned variant c are c alone.
C22_Original ==
    ttl.at = "again" =>
        \A i \in 1..Len(ttl.variations) :
            IsCleaned(i) => ttl.again[i] = <<ttl.variations[i]>>

\* C22: the variations of a cleaned variant c that generateTitleVariations
\* emitted (`cleaned`, or the lower case of `originalCleaned`) begin with c
\* unchanged, and hold at most one further entry, a cleaned variant of c that
\* is shorter than c.
C22_CleanedKept ==
    ttl.at = "again" =>
        \A i \in 1..Len(ttl.variations) :
            IsCleanedVariant(i) =>
                /\ Len(ttl.again[i]) \in {1, 2}
                /\ ttl.again[i][1] = ttl.variations[i]
                /\ Len(ttl.again[i]) = 2 => Len(ttl.again[i][2]) < Len(ttl.variations[i])

C22_Witness ==
    /\ ttl.at = "again"
    /\ \E i \in 1..Len(ttl.variations) :
           IsCleaned(i) /\ Len(ttl.again[i]) = 2

---------------------------------------------------------------------------
(* Claims about login, checked under SpecLogin *)

LockInFuture == auth.user.lockUntil # NULL /\ auth.user.lockUntil > auth.now

\* The findOne of request i resolves in this step.
Finds(i) == auth.requests[i].at = "finding" /\ auth'.requests[i].at # "finding"

Answered(i, status) ==
    /\ auth'.requests[i].at = "done"
    /\ auth'.requests[i].status = status
    /\ ~auth'.requests[i].compared
    /\ auth'.user = auth.user

LockoutStep ==
    \A i \in Clients :
        /\ Finds(i) /\ auth.requests[i].email = "known" /\ LockInFuture
               => Answered(i, 423)
        /\ Finds(i) /\ auth.requests[i].email = "unknown" => Answered(i, 401)
        /\ (/\ auth.requests[i].at = "comparing"
            /\ auth'.requests[i].at = "saving"
            /\ auth.requests[i].password = "wrong"
            /\ auth'.requests[i].user.failedLoginAttempts >= 5)
               => auth'.requests[i].user.lockUntil = auth.now + 30
        /\ auth.requests[i].at = "saving" /\ auth'.requests[i].at = "done"
               => auth'.user = auth.requests[i].user

\* C23: a failed password check that brings failedLoginAttempts to 5 or more
\* sets lockUntil 30 minutes ahead; a login that finds the account with
\* lockUntil in the future is answered 423, whatever its password, without a
\* password comparison and without a change of the stored user; a login for
\* an unknown email is answered 401 and changes nothing.
C23_Lockout ==
    /\ [][LockoutStep]_vars
    /\ [](\A i \in Clients : auth.requests[i].status \in {400, 423} => ~auth.requests[i].compared)

C23_Witness ==
    /\ LockInFuture
    /\ auth.user.failedLoginAttempts >= 5
    /\ \E i \in Clients :
          /\ auth.requests[i].at = "done"
          /\ auth.requests[i].status = 423
          /\ auth.requests[i].password = "right"

\* C24: under every interleaving of login requests, at most 5 failed password
\* comparisons are made on the account since its last successful login
\* before the account is locked.
C24_FailedComparisonsBounded == auth.failed <= 5

---------------------------------------------------------------------------
(* Claims about the IP ban middleware, checked under SpecBan *)

PublicInProduction ==
    /\ ban.at # "idle"
    /\ ban.env # "development"
    /\ ban.ip = "203.0.113.9"

\* C25: outside development, a request from a public address reaches the
\* downstream handlers only if the ban lookup completed and found no active
\* ban; a request from an address with an active ban is answered 403 and
\* next() is not called for it, also when the lookup or the update throws.
C25_FailsClosed ==
    PublicInProduction =>
        /\ ban.next > 0 => ban.looked /\ ~ban.banned
        /\ ban.banned => ban.next = 0
        /\ ban.banned /\ ban.at = "done" => ban.status = 403

---------------------------------------------------------------------------
(* Claims about the watchlist, checked under SpecWatch *)

\* C26: the watchlist holds at most one item per content id; addToWatchlist
\* for a content id that is present leaves the number of items unchanged; a
\* 4xx outcome of addToWatchlist leaves the watchlist unchanged.
C26_WatchlistUnique ==
    /\ \A j, k \in 1..Len(watch.watchlist) :
           j # k => watch.watchlist[j].content # watch.watchlist[k].content
    /\ /\ watch.last.fn = "add"
       /\ watch.last.code = 200
       /\ \E k \in 1..Len(watch.last.before) :
              watch.last.before[k].content = ObjectIdOf(watch.last.contentId)
       => Len(watch.watchlist) = Len(watch.last.before)
    /\ watch.last.fn = "add" /\ watch.last.code \in {400, 404}
           => watch.watchlist = watch.last.before

---------------------------------------------------------------------------
(* Claims about the counters of a run, checked under SpecRun *)

OutcomeCounters == {"newAdded", "updated", "merged", "skipped", "errors"}

Counted == stats.newAdded + stats.updated + stats.merged + stats.skipped + stats.errors

\* This step is a call of saveTmdbContent or saveMalContent.
SaveCall ==
    /\ batch' = batch
    /\ stats' # stats \/ (last' # last /\ last'.kind # "rated")

\* A call of a save adds 1 to totalProcessed and 1 to exactly one of the five
\* outcome counters; a failed fetch adds 1 to errors only.
CountedOnce ==
    /\ SaveCall =>
          /\ stats'.totalProcessed = stats.totalProcessed + 1
          /\ \E f \in OutcomeCounters :
                /\ stats'[f] = stats[f] + 1
                /\ \A g \in OutcomeCounters \ {f} : stats'[g] = stats[g]
    /\ batch' # batch => stats' = [stats EXCEPT !.errors = @ + 1]

\* C27: every call of saveTmdbContent or saveMalContent adds 1 to
\* totalProcessed and 1 to exactly one of newAdded, updated, merged, skipped,
\* errors, so totalProcessed <= the sum of the five, with equality when no
\* page or batch fetch failed (a failed fetch adds 1 to errors only).
C27_CounterAccounting ==
    /\ [][CountedOnce]_vars
    /\ [](stats.totalProcessed + batch.fetchErrors = Counted)

C27_Witness ==
    /\ stats.totalProcessed = 3
    /\ batch.fetchErrors = 1
    /\ stats.newAdded = 1 /\ stats.merged = 1 /\ stats.errors = 2
    /\ Counted = 4

---------------------------------------------------------------------------
(* Claims about user ratings and the score unifier, checked under SpecScore *)

\* The score of the arguments of the last call with a user aggregate supplied.
WithUserAggregate(ua, uc) ==
    calculateUnifiedScoreWithUserRatings(scArgs.ts, scArgs.tv, scArgs.ms, scArgs.mv, ua, uc)

\* C28: when the score unifier returned a non-null value for provider inputs
\* with no user aggregate (average null, count 0), it returns a non-null
\* value for the same provider inputs with any user aggregate (average in
\* 1..10, count >= 1).
C28_RatingsKeepScore ==
    (/\ scRes.called
     /\ scArgs.ua = NULL /\ scArgs.uc = 0
     /\ ~IsNull(scRes.run.result))
        => \A ua \in UserAverages \ {NULL} :
           \A uc \in UserCounts \ {0} :
               ~IsNull(WithUserAggregate(ua, uc))

---------------------------------------------------------------------------
(* Claims about the symmetry of the fact checker, checked under SpecFact *)

\* C29: isLikelySameContent(a, b) = isLikelySameContent(b, a): the decision
\* does not depend on which record is the new one and which the stored one.
C29_FactCheckSymmetric ==
    fcRes.checked => ((fcRes.reason = "match") <=> isLikelySameContent(fcOld, fcNew))

\* A new movie and a stored series three years apart: the year test depends on
\* the new record's type (2 years for a movie, 3 for a series), and the pair
\* is rejected in both directions.
C29_Witness ==
    /\ fcRes.checked
    /\ fcNew.contentType = "movie" /\ fcOld.contentType = "tv"
    /\ fcNew.releaseDate = 2010 /\ fcOld.releaseDate = 2013
    /\ fcRes.reason = "year"
    /\ FactCheck(fcOld, fcNew) = "type"

---------------------------------------------------------------------------
(* Claims about the search, checked under SpecSearch *)

\* The stored records that match the request, in their rank order.
Ranked == Sorted({d \in search.stored : Matches(d, search.query, search.type)})

\* The stored records among the returned items.
RECURSIVE StoredOf(_)
StoredOf(content) ==
    IF content = <<>> THEN <<>>
    ELSE IF Head(content) \in search.stored THEN <<Head(content)>> \o StoredOf(Tail(content))
    ELSE StoredOf(Tail(content))

\* C30: the page offset is applied exactly once: with more than limit matching
\* stored records, page p of limit n holds the matches ranked (p-1)*n+1 to
\* p*n, no two returned items share an identifier or a lower-cased title and
\* type, and hasNextPage is true whenever matches remain beyond the page.
C30_PaginatesOnce ==
    (search.at = "done" /\ search.status = 200 /\ Len(Ranked) > search.limit) =>
        /\ StoredOf(search.content) =
               Slice(Ranked, (search.page - 1) * search.limit, search.page * search.limit)
        /\ \A i, j \in 1..Len(search.content) :
               i # j => Keys(search.content[i]) \cap Keys(search.content[j]) = {}
        /\ Len(Ranked) > search.page * search.limit => search.pagination.hasNextPage

=============================================================================
